---- MODULE Spec2Model ----
(***************************************************************************)
(* Model of the form-filling agent: the page (DOM) the agent acts on, the  *)
(* Set-of-Mark element marker (src/src/element_marker.py), the action      *)
(* router and its handlers (src/src/form_handlers), and the Look-Think-Act *)
(* loop with its loop detection (src/src/vision_agent.py).                 *)
(***************************************************************************)
EXTENDS Integers, Sequences, FiniteSets, TLC

VARIABLES
    page,        \* the live document: static elements and their dynamic state
    env,         \* what the agent was constructed with: files, flags, budget
    markers,     \* ElementMarker.markers, the manifest of the last injection
    probe,       \* what the last ElementMarker call returned to its caller
    issued,      \* history: size of the manifest the last successful injection
                 \* returned, and the scroll position it was taken at
    prevIssued,  \* history: the same for the injection before that one
    unmarked,    \* history: remove_markers succeeded and nothing was injected since
    last,        \* history: the last routed action, its input and its result
    action_history, \* VisionAgent.action_history
    verdict,     \* what the last _detect_loop call returned
    pc,          \* where VisionAgent.run stands
    step,        \* the loop counter of VisionAgent.run
    decision,    \* the decision of the oracle in this iteration
    outcome      \* what VisionAgent.run returned

markerVars == <<page, markers, probe, issued, prevIssued, unmarked>>
runVars == <<pc, step, decision, outcome>>
vars == <<page, env, markers, probe, issued, prevIssued, unmarked, last,
          action_history, verdict, pc, step, decision, outcome>>

-----------------------------------------------------------------------------
(* Bounds of the model *)

\* number of elements of the document
NumEls == 3

\* entries a history holds in front of the window _detect_loop reads
MaxOlder == 1

\* the step budget (max_steps) a run is given
MaxSteps == 5

\* iterations of a run in which the marker's page calls may raise
FaultySteps == 1

-----------------------------------------------------------------------------
(* Strings *)

UpperCase == <<"A", "B", "C", "D", "E", "F", "G", "H", "I", "J", "K", "L", "M",
               "N", "O", "P", "Q", "R", "S", "T", "U", "V", "W", "X", "Y", "Z">>
LowerCase == <<"a", "b", "c", "d", "e", "f", "g", "h", "i", "j", "k", "l", "m",
               "n", "o", "p", "q", "r", "s", "t", "u", "v", "w", "x", "y", "z">>

\* str.lower() on one character
LowerChar(c) ==
    IF \E k \in 1..Len(UpperCase) : UpperCase[k] = c
    THEN LowerCase[CHOOSE k \in 1..Len(UpperCase) : UpperCase[k] = c]
    ELSE c

\* str.lower(): character by character, the string taken in halves
RECURSIVE Lower(_)
Lower(s) ==
    IF Len(s) <= 1 THEN LowerChar(s)
    ELSE Lower(SubSeq(s, 1, Len(s) \div 2)) \o Lower(SubSeq(s, Len(s) \div 2 + 1, Len(s)))

\* str.replace(c, "") for each c of drop
RECURSIVE Without(_, _)
Without(s, drop) ==
    IF Len(s) <= 1 THEN (IF s \in drop THEN "" ELSE s)
    ELSE Without(SubSeq(s, 1, Len(s) \div 2), drop)
            \o Without(SubSeq(s, Len(s) \div 2 + 1, Len(s)), drop)

\* needle in hay
Contains(hay, needle) ==
    \E k \in 0..(Len(hay) - Len(needle)) : SubSeq(hay, k + 1, k + Len(needle)) = needle

\* BaseHandler._normalize_label
NormalizeLabel(s) == Without(Lower(s), {" ", "-", "_"})

-----------------------------------------------------------------------------
(* The page *)

\* viewport={'width': 1280, 'height': 900}
InnerHeight == 900

\* page.mouse.wheel(0, 500) / page.mouse.wheel(0, -500)
WheelStep == 500

ElIds == 1..NumEls

\* The page is one turn of the wheel taller than the viewport.
PageHeight == InnerHeight + WheelStep

\* Document position of the i-th element (document order = vertical order):
\* the elements are spread evenly over the page.
ElTop(i) == 160 + (1000 * i) \div (NumEls + 1)

MaxScrollY == IF PageHeight > InnerHeight THEN PageHeight - InnerHeight ELSE 0

Clamp(y) == IF y < 0 THEN 0 ELSE IF y > MaxScrollY THEN MaxScrollY ELSE y

\* An element of the document. tag, type, role: the node; height, display: its
\* box; accName: its accessible name; labelText, labelRel: the text of the
\* <label> that belongs to it and how the two stand in the tree ("for": the
\* label names it, "wrap": the label contains it, "next": it follows the label
\* directly, "sibling": it follows the label later, "divsibling": it sits in a
\* div that follows the label); ownText: its text content; within: the
\* container that wraps it and its label and nothing else ("": none); popupOf:
\* see Attached; the rest are attributes.
PlainDiv ==
    [tag |-> "div", type |-> "", role |-> "", height |-> 80, display |-> "block",
     accName |-> "", labelText |-> "", labelRel |-> {}, ownText |-> "",
     placeholder |-> "", nameAttr |-> "", idAttr |-> "", ariaLabel |-> "",
     valueAttr |-> "", accept |-> "", cls |-> "", options |-> <<>>,
     within |-> "", popupOf |-> 0]

TextInput == [PlainDiv EXCEPT !.tag = "input", !.type = "text"]
CheckboxInput == [PlainDiv EXCEPT !.tag = "input", !.type = "checkbox"]
ButtonEl == [PlainDiv EXCEPT !.tag = "button", !.type = "submit"]
HiddenStyleInput == [TextInput EXCEPT !.display = "none"]
ZeroSizeInput == [TextInput EXCEPT !.height = 0]

ElementKinds ==
    {TextInput, CheckboxInput, ButtonEl, HiddenStyleInput, ZeroSizeInput, PlainDiv}

\* interactiveSelectors of the injection script.
InteractiveTags == {"input", "textarea", "select", "button"}
InteractiveRoles == {"button", "checkbox", "radio", "combobox", "listbox",
                     "menuitem", "option", "switch", "tab"}

Interactive(e) ==
    \/ e.tag \in InteractiveTags /\ ~(e.tag = "input" /\ e.type = "hidden")
    \/ e.role \in InteractiveRoles

\* A target of a page call: element i is i, the <label> of element i is -i,
\* 0 is no target.
ElOf(t) == IF t < 0 THEN -t ELSE t
IsLabel(t) == t < 0

\* Document order of targets: a label comes right before its element.
DocOrder(t) == IF t < 0 THEN 2 * (-t) - 1 ELSE 2 * t

\* getBoundingClientRect of target t: viewport-relative top and bottom. A label
\* stands where its element stands and has the height of a line of the form.
BoxHeight(p, t) == IF t < 0 THEN 80 ELSE p.els[t].height
RectTop(p, t) == ElTop(ElOf(t)) - p.scrollY
RectBottom(p, t) == ElTop(ElOf(t)) + BoxHeight(p, t) - p.scrollY
CenterY(p, t) == RectTop(p, t) + (BoxHeight(p, t) \div 2)

\* The element filter of the injection script: true when the element is skipped.
Skipped(p, i) ==
    \/ p.els[i].height = 0
    \/ p.els[i].display = "none"
    \/ RectBottom(p, i) < 0
    \/ RectTop(p, i) > InnerHeight

\* A fresh page showing the elements els: scrolled to the top, nothing marked,
\* nothing checked, typed, attached or opened.
FreshPage(els) ==
    [els      |-> els,
     scrollY  |-> 0,
     vaId     |-> [i \in ElIds |-> 0],
     overlays |-> {},
     checked  |-> [i \in ElIds |-> FALSE],
     value    |-> [i \in ElIds |-> ""],
     files    |-> [i \in ElIds |-> ""],
     open     |-> {}]

\* page.mouse.wheel(0, dy)
Wheel(p, dy) == [p EXCEPT !.scrollY = Clamp(p.scrollY + dy)]

\* An element is in the tree unless it is the popup of a trigger that was not
\* clicked yet (popupOf: how many elements before it its trigger is).
Attached(p, i) == p.els[i].popupOf = 0 \/ (i - p.els[i].popupOf) \in p.open

\* Playwright's is_visible: in the tree, rendered, with a non-empty box. A label
\* shows whenever it is in the tree, also when its element is styled away.
IsVisible(p, t) ==
    /\ t # 0
    /\ Attached(p, ElOf(t))
    /\ IsLabel(t) \/ (p.els[t].display # "none" /\ p.els[t].height > 0)

\* scroll_into_view_if_needed on a target with a box: centre it unless it is
\* already in view.
ScrollIntoView(p, t) ==
    IF RectTop(p, t) >= 0 /\ RectBottom(p, t) <= InnerHeight THEN p
    ELSE [p EXCEPT !.scrollY =
            Clamp(ElTop(ElOf(t)) + (BoxHeight(p, t) \div 2) - (InnerHeight \div 2))]

\* element.scrollIntoView({block: 'center'})
ScrollCenter(p, t) ==
    [p EXCEPT !.scrollY =
        Clamp(ElTop(ElOf(t)) + (BoxHeight(p, t) \div 2) - (InnerHeight \div 2))]

\* What a click does to target t (0: the click lands on nothing): a checkbox
\* toggles, a radio button is set, a trigger shows its popup; a click on a
\* label that names or contains its element is a click on the element.
ClickOn(p, t) ==
    IF t = 0 THEN p
    ELSE IF IsLabel(t)
    THEN IF p.els[-t].labelRel \cap {"for", "wrap"} = {} THEN p
         ELSE [p EXCEPT !.checked[-t] = CASE p.els[-t].type = "checkbox" -> ~@
                                          [] p.els[-t].type = "radio" -> TRUE
                                          [] OTHER -> @,
                        !.open = @ \cup {-t}]
    ELSE [p EXCEPT !.checked[t] = CASE p.els[t].type = "checkbox" -> ~@
                                    [] p.els[t].type = "radio" -> TRUE
                                    [] OTHER -> @,
                   !.open = @ \cup {t}]

-----------------------------------------------------------------------------
(* Locators: how Playwright and the page scripts find their targets *)

\* The ARIA role of an element: its role attribute, else the role of its tag.
AriaRole(e) ==
    IF e.role # "" THEN e.role
    ELSE CASE e.tag = "input" /\ e.type = "text" -> "textbox"
           [] e.tag = "textarea" -> "textbox"
           [] e.tag = "input" /\ e.type = "checkbox" -> "checkbox"
           [] e.tag = "input" /\ e.type = "radio" -> "radio"
           [] e.tag = "input" /\ e.type = "submit" -> "button"
           [] e.tag = "button" -> "button"
           [] e.tag = "select" -> "combobox"
           [] e.tag = "a" -> "link"
           [] e.tag = "li" -> "listitem"
           [] OTHER -> ""

\* Case-insensitive containment (has-text, getBy* with exact=False,
\* textContent.toLowerCase().includes(label.lower())).
CiHas(hay, needle) == Contains(Lower(hay), Lower(needle))

AnyOf(S, x) == S = {} \/ x \in S

AttrOf(e, attr) ==
    CASE attr = "name" -> e.nameAttr
      [] attr = "id" -> e.idAttr
      [] attr = "aria-label" -> e.ariaLabel
      [] attr = "value" -> e.valueAttr
      [] attr = "accept" -> e.accept
      [] attr = "placeholder" -> e.placeholder
      [] attr = "class" -> e.cls
      [] OTHER -> ""

\* One attribute test <<attr, mode, needle>> of a selector: [attr*="needle"]
\* ("has"), [attr*="needle" i] ("hasci"), [attr="needle"] and #id and .class
\* ("eq"). An attribute the element does not carry never matches, nor does an
\* empty needle.
AttrTest(e, a) ==
    /\ AttrOf(e, a[1]) # ""
    /\ a[3] # ""
    /\ CASE a[2] = "has" -> Contains(AttrOf(e, a[1]), a[3])
         [] a[2] = "hasci" -> Contains(Lower(AttrOf(e, a[1])), Lower(a[3]))
         [] OTHER -> AttrOf(e, a[1]) = a[3]

\* page.get_by_role(role, name=name): elements styled away have no role
ByRole(role, name) == [by |-> "role", role |-> role, text |-> name]
\* page.get_by_role(role).filter(has_text=text)
ByRoleHasText(role, text) == [by |-> "rolehas", role |-> role, text |-> text]
\* page.get_by_label(text, exact=exact)
ByLabel(text, exact) == [by |-> "label", exact |-> exact, text |-> text]
\* page.get_by_placeholder(text)
ByPlaceholder(text) == [by |-> "placeholder", text |-> text]
\* page.get_by_text(text, exact=exact)
ByText(text, exact) == [by |-> "text", exact |-> exact, text |-> text]
\* A compound selector tag[type=..][role=..][attr..]:has-text("text"); an empty
\* set leaves that part out, text is <<>> without :has-text.
Css(tags, types, roles, attrs, text) ==
    [by |-> "css", tags |-> tags, types |-> types, roles |-> roles,
     attrs |-> attrs, text |-> text]
\* label:has-text("text") <combinator> tag[type=..][role=..]: rels names the relations
\* of label and element the combinator accepts.
CssLabelRel(rels, tags, types, roles, text) ==
    [by |-> "labelrel", rels |-> rels, tags |-> tags, types |-> types,
     roles |-> roles, text |-> text]
\* container:has-text("text") tag[type=..][role=..]
CssUnder(container, text, tags, types, roles) ==
    [by |-> "under", container |-> container, text |-> text, tags |-> tags,
     types |-> types, roles |-> roles]
\* container >> text="text"
CssUnderText(container, text) ==
    [by |-> "undertext", container |-> container, text |-> text]
\* A selector asking for a nesting the documents of the model do not have (an
\* element inside a labelled or aria-labelled element).
CssNested == [by |-> "nested"]

\* Whether locator loc selects element e.
Selects(loc, e) ==
    CASE loc.by = "role" ->
            /\ e.display # "none"
            /\ AriaRole(e) = loc.role /\ CiHas(e.accName, loc.text)
      [] loc.by = "rolehas" ->
            /\ e.display # "none"
            /\ AriaRole(e) = loc.role /\ CiHas(e.ownText, loc.text)
      [] loc.by = "label" ->
            \/ /\ e.labelText # ""
               /\ e.labelRel \cap {"for", "wrap"} # {}
               /\ IF loc.exact THEN e.labelText = loc.text
                  ELSE CiHas(e.labelText, loc.text)
            \/ /\ e.ariaLabel # ""
               /\ IF loc.exact THEN e.ariaLabel = loc.text
                  ELSE CiHas(e.ariaLabel, loc.text)
      [] loc.by = "placeholder" ->
            e.placeholder # "" /\ CiHas(e.placeholder, loc.text)
      [] loc.by = "text" ->
            /\ e.ownText # ""
            /\ IF loc.exact THEN e.ownText = loc.text ELSE CiHas(e.ownText, loc.text)
      [] loc.by = "css" ->
            /\ AnyOf(loc.tags, e.tag) /\ AnyOf(loc.types, e.type)
            /\ AnyOf(loc.roles, e.role)
            /\ \A a \in loc.attrs : AttrTest(e, a)
            /\ loc.text = <<>> \/ CiHas(e.ownText, loc.text[1])
      [] loc.by = "labelrel" ->
            /\ AnyOf(loc.tags, e.tag) /\ AnyOf(loc.types, e.type)
            /\ AnyOf(loc.roles, e.role)
            /\ e.labelText # ""
            /\ e.labelRel \cap loc.rels # {}
            /\ CiHas(e.labelText, loc.text)
      [] loc.by = "under" ->
            /\ e.within = loc.container
            /\ AnyOf(loc.tags, e.tag) /\ AnyOf(loc.types, e.type)
            /\ AnyOf(loc.roles, e.role)
            /\ CiHas(e.labelText, loc.text) \/ CiHas(e.ownText, loc.text)
      [] loc.by = "undertext" ->
            e.within = loc.container /\ e.ownText # "" /\ e.ownText = loc.text
      [] OTHER -> FALSE

\* Whether locator loc selects the label of element e.
SelectsLabel(loc, e) ==
    /\ e.labelText # ""
    /\ CASE loc.by = "text" ->
                IF loc.exact THEN e.labelText = loc.text
                ELSE CiHas(e.labelText, loc.text)
         [] loc.by = "css" ->
                /\ AnyOf(loc.tags, "label")
                /\ loc.types = {} /\ loc.roles = {} /\ loc.attrs = {}
                /\ loc.text = <<>> \/ CiHas(e.labelText, loc.text[1])
         [] loc.by = "undertext" ->
                e.within = loc.container /\ e.labelText = loc.text
         [] OTHER -> FALSE

\* The targets locator loc selects on page p.
Matches(p, loc) ==
    {i \in ElIds : Attached(p, i) /\ Selects(loc, p.els[i])}
    \cup {-i : i \in {j \in ElIds : Attached(p, j) /\ SelectsLabel(loc, p.els[j])}}

Min(S) == CHOOSE x \in S : \A y \in S : x <= y
Max(S) == CHOOSE x \in S : \A y \in S : x >= y

\* The first and the last of a set of targets in document order (0: none).
FirstOf(S) == IF S = {} THEN 0 ELSE CHOOSE t \in S : \A u \in S : DocOrder(t) <= DocOrder(u)
LastOf(S) == IF S = {} THEN 0 ELSE CHOOSE t \in S : \A u \in S : DocOrder(t) >= DocOrder(u)

\* locator.count()
Count(p, loc) == Cardinality(Matches(p, loc))

\* locator.first
First(p, loc) == FirstOf(Matches(p, loc))

-----------------------------------------------------------------------------
(* ElementMarker *)

NoInfo == [found |-> FALSE, el |-> 0, centerY |-> 0, isVisible |-> FALSE]

\* elements.forEach of MARKER_INJECTION_SCRIPT from element i on, with the
\* running idCounter and the markers pushed so far.
RECURSIVE InjectFrom(_, _, _, _)
InjectFrom(p, i, idCounter, acc) ==
    IF i > NumEls THEN [page |-> p, markers |-> acc]
    ELSE IF ~Attached(p, i) \/ ~Interactive(p.els[i]) \/ Skipped(p, i)
         THEN InjectFrom(p, i + 1, idCounter, acc)
         ELSE InjectFrom(
                [p EXCEPT !.vaId[i] = idCounter,
                          !.overlays = @ \cup {idCounter}],
                i + 1,
                idCounter + 1,
                Append(acc, [id |-> idCounter, el |-> i,
                             tagName |-> p.els[i].tag,
                             centerY |-> CenterY(p, i)]))

\* MARKER_INJECTION_SCRIPT: drop the drawn overlays, then mark from id 1.
InjectionScript(p) == InjectFrom([p EXCEPT !.overlays = {}], 1, 1, <<>>)

\* A removal that drops the overlays and forgets the id attributes.
RemovalScriptKeepsIds(p) == [p EXCEPT !.overlays = {}]

\* MARKER_REMOVAL_SCRIPT
RemovalScript(p) ==
    [p EXCEPT !.overlays = {}, !.vaId = [i \in ElIds |-> 0]]

\* document.querySelector('[data-vision-agent-id="id"]'): first in document order.
QueryVaId(p, id) ==
    IF \E i \in ElIds : Attached(p, i) /\ p.vaId[i] = id
    THEN Min({i \in ElIds : Attached(p, i) /\ p.vaId[i] = id})
    ELSE 0

\* GET_ELEMENT_SCRIPT / get_element_info
GetElementInfo(p, id) ==
    LET i == QueryVaId(p, id) IN
    IF i = 0 THEN NoInfo
    ELSE [found |-> TRUE, el |-> i, centerY |-> CenterY(p, i),
          isVisible |-> p.els[i].height > 0]

\* The element a click at viewport height y lands on (0: none).
ElementAt(p, y) ==
    LET hit == {i \in ElIds : /\ IsVisible(p, i)
                               /\ RectTop(p, i) <= y /\ y <= RectBottom(p, i)}
    IN  IF 0 <= y /\ y <= InnerHeight /\ hit # {} THEN Max(hit) ELSE 0

\* click_element: look the id up, click the centre of its rectangle. fault: the
\* page call raises. clicked: the targets the call clicked.
ClickElement(p, id, fault) ==
    LET info == IF fault THEN NoInfo ELSE GetElementInfo(p, id)
        hit == ElementAt(p, info.centerY)
    IN  IF ~info.found
        THEN [ret |-> FALSE, page |-> p, el |-> 0, clicked |-> {}]
        ELSE [ret |-> TRUE, page |-> ClickOn(p, hit), el |-> info.el,
              clicked |-> {hit} \ {0}]

\* An element page.fill accepts.
Fillable(e) == e.tag \in {"input", "textarea"} /\ e.type \in {"text", ""}

\* fill_element: look the id up, then page.click(selector) and
\* page.fill(selector, value) on the first element carrying the id.
FillElement(p, id, v, fault) ==
    LET info == IF fault THEN NoInfo ELSE GetElementInfo(p, id)
        i == info.el
    IN  IF ~info.found
        THEN [ret |-> FALSE, page |-> p, el |-> 0, clicked |-> {}]
        ELSE IF ~IsVisible(p, i)
        THEN [ret |-> FALSE, page |-> p, el |-> i, clicked |-> {}]
        ELSE IF ~Fillable(p.els[i])
        THEN [ret |-> FALSE, page |-> ClickOn(ScrollIntoView(p, i), i), el |-> i,
              clicked |-> {i}]
        ELSE [ret |-> TRUE,
              page |-> [ClickOn(ScrollIntoView(p, i), i) EXCEPT !.value[i] = v],
              el |-> i, clicked |-> {i}]

-----------------------------------------------------------------------------
(* Python values and action dictionaries *)

\* A value of an action or of a history entry: a string, an integer, None, or
\* the mark of a key the dictionary does not hold.
LabelTarget(l) == [kind |-> "label", label |-> l, id |-> 0]
IdTarget(n) == [kind |-> "id", label |-> "", id |-> n]
NoneTarget == [kind |-> "none", label |-> "", id |-> 0]
Absent == [kind |-> "absent", label |-> "", id |-> 0]

\* dict.get(key, default)
Get(v, default) == IF v.kind = "absent" THEN default ELSE v

\* bool(v)
Truthy(v) ==
    CASE v.kind = "label" -> v.label # ""
      [] v.kind = "id" -> v.id # 0
      [] OTHER -> FALSE

\* str() of the small integers the model uses.
Digits == <<"1", "2", "3", "4", "5", "6", "7", "8", "9">>
DecStr(n) == IF n = 0 THEN "0" ELSE Digits[n]

\* What an f-string writes for a value: a string itself, the decimal form of
\* an integer, "None" for None.
FormatTarget(t) ==
    IF t.kind = "label" THEN t.label
    ELSE IF t.kind = "id" THEN DecStr(t.id)
    ELSE "None"

\* An action dictionary as the oracle (or the prefill) writes it.
Action(type, target_label, value, element_id, file_path) ==
    [type |-> type, target_label |-> target_label, value |-> value,
     element_id |-> element_id, file_path |-> file_path]

-----------------------------------------------------------------------------
(* The handlers *)

\* self.page.mouse.wheel(0, 400) of the retry pass
RetryWheel == 400

\* self.page.mouse.wheel(0, 300) of the dropdown retry
DropdownWheel == 300

\* What a handler has done so far: the page and the targets it clicked.
Ctx(p) == [page |-> p, clicked |-> {}]

\* A handler returns ret, or raises (exc) with the page as it left it.
Returned(ret, c) ==
    [ret |-> ret, exc |-> FALSE, page |-> c.page, clicked |-> c.clicked]
Raised(c) ==
    [ret |-> FALSE, exc |-> TRUE, page |-> c.page, clicked |-> c.clicked]

\* base.scroll_element_into_view(page, locator) for a locator whose first
\* match is t: a target without a box makes the call time out, which is
\* swallowed.
ScrollElementIntoView(p, t) == IF IsVisible(p, t) THEN ScrollIntoView(p, t) ELSE p

\* select_option(label=v), then select_option(value=v) on a native list box.
SelectOption(e, v) ==
    LET byLabel == {k \in 1..Len(e.options) : e.options[k].label = v}
        byValue == {k \in 1..Len(e.options) : e.options[k].value = v}
    IN  IF e.tag # "select" THEN [ok |-> FALSE, value |-> ""]
        ELSE IF byLabel # {} THEN [ok |-> TRUE, value |-> e.options[Min(byLabel)].value]
        ELSE IF byValue # {} THEN [ok |-> TRUE, value |-> e.options[Min(byValue)].value]
        ELSE [ok |-> FALSE, value |-> ""]

\* The interaction of a handler with the target t its locator found: "click"
\* is click(force=True), "fill" is fill("") and fill(v), "select" is
\* select_option. ok: the call did not raise.
Interact(act, c, t, v) ==
    CASE act = "click" ->
            IF IsVisible(c.page, t)
            THEN [ok |-> TRUE,
                  ctx |-> [page |-> ClickOn(ScrollIntoView(c.page, t), t),
                           clicked |-> c.clicked \cup {t}]]
            ELSE [ok |-> FALSE, ctx |-> c]
      [] act = "fill" ->
            IF t > 0 /\ Fillable(c.page.els[ElOf(t)])
            THEN [ok |-> TRUE, ctx |-> [c EXCEPT !.page.value[t] = v]]
            ELSE [ok |-> FALSE, ctx |-> c]
      [] act = "select" ->
            IF t > 0 /\ SelectOption(c.page.els[ElOf(t)], v).ok
            THEN [ok |-> TRUE,
                  ctx |-> [c EXCEPT !.page.value[t] =
                                        SelectOption(c.page.els[ElOf(t)], v).value]]
            ELSE [ok |-> FALSE, ctx |-> c]
      [] OTHER -> [ok |-> FALSE, ctx |-> c]

RECURSIVE TryPassGoesOn(_, _, _, _, _)
TryPassGoesOn(c, locators, k, act, v) ==
    IF k > Len(locators) THEN [done |-> FALSE, ctx |-> c]
    ELSE LET Interacted(r) ==
                 IF r.ok
                 THEN [done |-> TRUE,
                       ctx |-> TryPassGoesOn(r.ctx, locators, k + 1, act, v).ctx]
                 ELSE TryPassGoesOn(r.ctx, locators, k + 1, act, v)
             Scrolled(t, c1) ==
                 IF t = 0 \/ ~IsVisible(c1.page, t)
                 THEN TryPassGoesOn(c1, locators, k + 1, act, v)
                 ELSE Interacted(Interact(act, c1, t, v))
             Located(t) ==
                 Scrolled(t, IF t = 0 THEN c
                             ELSE [c EXCEPT !.page = ScrollElementIntoView(c.page, t)])
         IN  Located(First(c.page, locators[k]))

\* One pass over the locators from the k-th on: the first locator that has a
\* match, whose first match is visible after scrolling to it and on which the
\* interaction succeeds ends the pass.
RECURSIVE TryPass(_, _, _, _, _)
TryPass(c, locators, k, act, v) ==
    IF k > Len(locators) THEN [done |-> FALSE, ctx |-> c]
    ELSE LET Interacted(r) ==
                 IF r.ok THEN [done |-> TRUE, ctx |-> r.ctx]
                 ELSE TryPass(r.ctx, locators, k + 1, act, v)
             Scrolled(t, c1) ==
                 IF t = 0 \/ ~IsVisible(c1.page, t)
                 THEN TryPass(c1, locators, k + 1, act, v)
                 ELSE Interacted(Interact(act, c1, t, v))
             Located(t) ==
                 Scrolled(t, IF t = 0 THEN c
                             ELSE [c EXCEPT !.page = ScrollElementIntoView(c.page, t)])
         IN  Located(First(c.page, locators[k]))

\* A pass on a page whose calls raise: every locator is skipped.
Pass(c, locators, act, v, crash) ==
    IF crash THEN [done |-> FALSE, ctx |-> c] ELSE TryPass(c, locators, 1, act, v)

\* BaseHandler._try_locators: a first pass, the wheel (outside any try), a
\* second pass.
TryLocators(c, locators, act, v, crash) ==
    LET SecondPass(second) == Returned(second.done, second.ctx)
        FirstPass(first) ==
            IF first.done THEN Returned(TRUE, first.ctx)
            ELSE IF crash THEN Raised(first.ctx)
            ELSE SecondPass(Pass([first.ctx EXCEPT !.page = Wheel(@, RetryWheel)],
                             locators, act, v, crash))
    IN  FirstPass(Pass(c, locators, act, v, crash))

(* InputHandler *)

IsCoverLetterFieldOnEitherWord(label) ==
    Contains(Lower(label), "cover") \/ Contains(Lower(label), "letter")

\* InputHandler._is_cover_letter_field
IsCoverLetterField(label) ==
    /\ Contains(Lower(label), "cover")
    /\ Contains(Lower(label), "letter")

\* The locator strategies of InputHandler.fill, in order.
FillLocators(label) ==
    LET target_lower == NormalizeLabel(label) IN
    << ByRole("textbox", label),
       ByLabel(label, FALSE),
       ByPlaceholder(label),
       Css({"textarea"}, {}, {}, {<<"name", "has", target_lower>>}, <<>>),
       Css({"textarea"}, {}, {}, {<<"id", "has", target_lower>>}, <<>>),
       Css({"input"}, {}, {}, {<<"name", "has", target_lower>>}, <<>>),
       Css({"input"}, {}, {}, {<<"id", "has", target_lower>>}, <<>>),
       Css({}, {}, {}, {<<"aria-label", "hasci", label>>}, <<>>),
       CssLabelRel({"next"}, {"input"}, {}, {}, label),
       CssLabelRel({"next"}, {"textarea"}, {}, {}, label),
       CssLabelRel({"next", "sibling"}, {"input"}, {}, {}, label),
       CssLabelRel({"divsibling"}, {"input"}, {}, {}, label),
       CssUnder("div", label, {"input"}, {}, {}) >>
    \o (IF IsCoverLetterField(label)
        THEN << Css({"textarea"}, {}, {}, {<<"name", "has", "cover">>}, <<>>),
                Css({"textarea"}, {}, {}, {<<"id", "eq", "cover_letter">>}, <<>>),
                Css({"textarea"}, {}, {}, {<<"data-field", "has", "cover">>}, <<>>),
                Css({"textarea"}, {}, {},
                    {<<"placeholder", "hasci", "cover">>}, <<>>) >>
        ELSE <<>>)

\* The elements the script of _fill_with_js reaches from a label that holds
\* the text: the element the label names, contains or is followed by, if it is
\* an input or a textarea.
JsFillTargets(p, label) ==
    {i \in ElIds : /\ Attached(p, i)
                   /\ p.els[i].labelText # ""
                   /\ CiHas(p.els[i].labelText, label)
                   /\ p.els[i].labelRel \cap {"for", "wrap", "next"} # {}
                   /\ p.els[i].tag \in {"input", "textarea"}}

\* A script fallback that reports success although it found no field.
FillWithJsReportsSuccess(c, label, v, crash) ==
    IF crash THEN [done |-> FALSE, ctx |-> c]
    ELSE IF JsFillTargets(c.page, label) = {} THEN [done |-> TRUE, ctx |-> c]
    ELSE LET i == Min(JsFillTargets(c.page, label)) IN
         [done |-> TRUE,
          ctx |-> [c EXCEPT !.page = [ScrollCenter(c.page, i) EXCEPT !.value[i] = v]]]

\* InputHandler._fill_with_js
FillWithJs(c, label, v, crash) ==
    IF crash \/ JsFillTargets(c.page, label) = {} THEN [done |-> FALSE, ctx |-> c]
    ELSE LET i == Min(JsFillTargets(c.page, label)) IN
         [done |-> TRUE,
          ctx |-> [c EXCEPT !.page = [ScrollCenter(c.page, i) EXCEPT !.value[i] = v]]]

\* The suggestion boxes '[role="listbox"]:visible' finds: a listbox wrapper
\* (named by the element it wraps) or an element that is a listbox itself.
SuggestionBoxes(p) ==
    {i \in ElIds : /\ IsVisible(p, i)
                   /\ p.els[i].within = "listbox" \/ p.els[i].role = "listbox"}

\* InputHandler._check_for_suggestions: in the first visible box, click the
\* option whose text is the value, else holds the value, else the first
\* option. Of the selectors only the listbox one finds a box that has options
\* in these documents.
CheckForSuggestions(c, v) ==
    IF SuggestionBoxes(c.page) = {} THEN c
    ELSE LET i == Min(SuggestionBoxes(c.page))
             e == c.page.els[i]
         IN  IF e.within # "listbox" THEN c
             ELSE IF \/ e.ownText # "" /\ CiHas(e.ownText, v)
                     \/ e.role = "option" \/ e.tag = "li" \/ e.cls = "pac-item"
             THEN Interact("click", c, i, v).ctx
             ELSE c

\* InputHandler.fill
Fill(p, a, e, crash) ==
    LET target_label == Get(a.target_label, LabelTarget(""))
        given == Get(a.value, LabelTarget(""))
        label == target_label.label
        value == IF IsCoverLetterField(label) /\ e.cover_letter_text # ""
                 THEN e.cover_letter_text
                 ELSE given.label
        \* the result: look for suggestions after a fill
        Filled(js) ==
            IF js.done THEN Returned(TRUE, CheckForSuggestions(js.ctx, value))
            ELSE Returned(FALSE, js.ctx)
        \* the script fallback
        Resorted(resort) ==
            Filled(IF resort.done THEN resort
                   ELSE FillWithJs(resort.ctx, label, value, crash))
        \* the last resort of a cover letter field: the first visible textarea
        Tried(first, textareas) ==
            Resorted(IF first.done \/ crash \/ ~IsCoverLetterField(label) \/ textareas = {}
                     THEN first
                     ELSE [done |-> TRUE,
                           ctx |-> Interact("fill", first.ctx, FirstOf(textareas), value).ctx])
        \* the locator strategies
        Passed(first) ==
            Tried(first,
                  {t \in Matches(first.ctx.page, Css({"textarea"}, {}, {}, {}, <<>>)) :
                      IsVisible(first.ctx.page, t)})
    IN  IF target_label.kind # "label" THEN Raised(Ctx(p))
        ELSE Passed(Pass(Ctx(p), FillLocators(label), "fill", value, crash))

(* CheckboxHandler *)

\* The locator strategies of CheckboxHandler.check, in order.
CheckLocators(label) ==
    LET target_lower == NormalizeLabel(label) IN
    << ByRole("checkbox", label),
       ByLabel(label, FALSE),
       Css({"input"}, {"checkbox"}, {}, {<<"name", "has", target_lower>>}, <<>>),
       Css({"input"}, {"checkbox"}, {}, {<<"id", "has", target_lower>>}, <<>>),
       CssLabelRel({"wrap"}, {"input"}, {"checkbox"}, {}, label),
       Css({"label"}, {}, {}, {}, <<label>>),
       Css({}, {}, {"checkbox"}, {}, <<label>>),
       Css({}, {}, {"switch"}, {}, <<label>>),
       CssUnder("div", label, {"input"}, {"checkbox"}, {}),
       CssUnder("span", label, {"input"}, {"checkbox"}, {}) >>

\* The labels the script of _check_with_js stops at: those that hold the text.
JsCheckLabels(p, label) ==
    {i \in ElIds : /\ Attached(p, i)
                   /\ p.els[i].labelText # ""
                   /\ CiHas(p.els[i].labelText, label)}

\* The elements the XPath of the script finds: those whose own text holds the
\* label as it is written.
JsXPathTargets(p, label) ==
    {i \in ElIds : /\ Attached(p, i)
                   /\ p.els[i].ownText # ""
                   /\ Contains(p.els[i].ownText, label)}

\* CheckboxHandler._check_with_js: at the first label that holds the text, the
\* checkbox the label contains, follows, or names is clicked unless it is
\* checked, and any other label is clicked itself; without such a label the
\* first element the XPath finds is clicked.
CheckWithJs(c, label) ==
    IF JsCheckLabels(c.page, label) # {}
    THEN LET i == Min(JsCheckLabels(c.page, label))
             e == c.page.els[i]
             centred == ScrollCenter(c.page, i)
         IN  IF e.labelRel \cap {"wrap", "next", "for"} # {} /\ e.type = "checkbox"
             THEN IF c.page.checked[i] THEN [done |-> TRUE, ctx |-> [c EXCEPT !.page = centred]]
                  ELSE [done |-> TRUE,
                        ctx |-> [page |-> ClickOn(centred, i),
                                 clicked |-> c.clicked \cup {i}]]
             ELSE [done |-> TRUE,
                   ctx |-> [page |-> ClickOn(c.page, -i),
                            clicked |-> c.clicked \cup {-i}]]
    ELSE IF JsXPathTargets(c.page, label) # {}
    THEN LET i == Min(JsXPathTargets(c.page, label)) IN
         [done |-> TRUE,
          ctx |-> [page |-> ClickOn(c.page, i), clicked |-> c.clicked \cup {i}]]
    ELSE [done |-> FALSE, ctx |-> c]

\* CheckboxHandler.check: check_action clicks (force) whatever the locator
\* found and reports success.
Check(p, a, crash) ==
    LET target_label == Get(a.target_label, LabelTarget(""))
        label == target_label.label
        Scripted(js) == Returned(js.done, js.ctx)
        Tried(tried) ==
            IF tried.exc \/ tried.ret THEN tried
            ELSE Scripted(CheckWithJs([page |-> tried.page, clicked |-> tried.clicked],
                                      label))
    IN  IF target_label.kind # "label" THEN Raised(Ctx(p))
        ELSE Tried(TryLocators(Ctx(p), CheckLocators(label), "click", "", crash))

(* FormController._handle_click *)

\* The locator strategies of _handle_click, in order.
ClickLocators(label) ==
    << ByRole("button", label),
       ByRole("link", label),
       ByText(label, TRUE),
       ByText(label, FALSE),
       Css({}, {}, {}, {<<"aria-label", "eq", label>>}, <<>>),
       Css({"button"}, {}, {}, {}, <<label>>),
       Css({"a"}, {}, {}, {}, <<label>>),
       Css({}, {}, {"button"}, {}, <<label>>) >>

\* The elements the script of _handle_click stops at: buttons, links and
\* submit inputs whose text or aria-label holds the label.
JsClickTargets(p, label) ==
    {i \in ElIds : /\ Attached(p, i)
                   /\ \/ p.els[i].tag \in {"button", "a"}
                      \/ p.els[i].role = "button"
                      \/ p.els[i].tag = "input" /\ p.els[i].type = "submit"
                   /\ \/ CiHas(p.els[i].ownText, label)
                      \/ p.els[i].ariaLabel # "" /\ CiHas(p.els[i].ariaLabel, label)}

\* FormController._handle_click: a pass, the wheel, a second pass, the script.
HandleClick(p, a, crash) ==
    LET target_label == Get(a.target_label, LabelTarget(""))
        label == FormatTarget(target_label)
        Scripted(c, js) ==
            IF target_label.kind # "label" \/ js = {} THEN Returned(FALSE, c)
            ELSE Returned(TRUE, [page |-> ClickOn(ScrollCenter(c.page, Min(js)), Min(js)),
                                 clicked |-> c.clicked \cup {Min(js)}])
        Tried(tried) ==
            IF tried.exc \/ tried.ret THEN tried
            ELSE Scripted([page |-> tried.page, clicked |-> tried.clicked],
                          JsClickTargets(tried.page, label))
    IN  Tried(TryLocators(Ctx(p), ClickLocators(label), "click", "", crash))

ScrollDownReportsFailure(p, crash) ==
    IF crash THEN Raised(Ctx(p)) ELSE Returned(FALSE, Ctx(Wheel(p, WheelStep)))

\* FormController._scroll_down
ScrollDown(p, crash) ==
    IF crash THEN Raised(Ctx(p)) ELSE Returned(TRUE, Ctx(Wheel(p, WheelStep)))

\* FormController._scroll_up
ScrollUp(p, crash) ==
    IF crash THEN Raised(Ctx(p)) ELSE Returned(TRUE, Ctx(Wheel(p, -WheelStep)))

\* FormController._wait
Wait(p) == Returned(TRUE, Ctx(p))

(* RadioHandler *)

\* The locator strategies of RadioHandler.select, in order.
RadioLocators(value) ==
    << ByRole("radio", value),
       ByLabel(value, TRUE),
       ByLabel(value, FALSE),
       Css({"input"}, {"radio"}, {}, {<<"value", "eq", value>>}, <<>>),
       Css({"input"}, {"radio"}, {}, {<<"value", "eq", Lower(value)>>}, <<>>),
       Css({"input"}, {"radio"}, {},
           {<<"value", "has", NormalizeLabel(value)>>}, <<>>),
       CssLabelRel({"wrap"}, {"input"}, {"radio"}, {}, value),
       Css({"label"}, {}, {}, {}, <<value>>),
       CssUnderText("radiogroup", value),
       Css({}, {}, {"radio"}, {}, <<value>>),
       CssUnder("div", value, {"input"}, {"radio"}, {}),
       Css({"span"}, {}, {}, {}, <<value>>) >>

IsRadioInput(e) == e.tag = "input" /\ e.type = "radio"

\* The nodes 'label, span, div' of the script of _select_with_js whose text
\* holds the value, named by target: for element i its wrapper (3 * i - 2), its
\* label (3 * i - 1) and the element itself (3 * i), in document order.
JsRadioNodes(p, value) ==
    {3 * i - 2 : i \in {j \in ElIds :
        /\ Attached(p, j) /\ p.els[j].within \in {"div", "span"}
        /\ CiHas(p.els[j].labelText, value) \/ CiHas(p.els[j].ownText, value)}}
    \cup {3 * i - 1 : i \in {j \in ElIds :
        /\ Attached(p, j) /\ p.els[j].labelText # ""
        /\ CiHas(p.els[j].labelText, value)}}
    \cup {3 * i : i \in {j \in ElIds :
        /\ Attached(p, j) /\ p.els[j].tag \in {"span", "div"}
        /\ CiHas(p.els[j].ownText, value)}}

\* The radio button the script takes for node n: the one inside the node, else
\* its previous sibling, else the first one under its parent; 0 when what it
\* finds is no radio button.
JsRadioFor(p, n) ==
    LET i == (n + 2) \div 3
        part == n - 3 * (i - 1)
        e == p.els[i]
        inside == /\ IsRadioInput(e)
                  /\ part = 1 \/ (part = 2 /\ "wrap" \in e.labelRel)
        \* the node has a previous sibling: the label in front of the element,
        \* or the last node of the element before when nothing wraps this one
        labelBefore == part = 3 /\ e.labelText # "" /\ "wrap" \notin e.labelRel
        inWrapper == e.within # "" /\ part # 1
        prev == IF labelBefore THEN -1
                ELSE IF inWrapper \/ i = 1 THEN 0
                ELSE IF p.els[i - 1].within = "" /\ "wrap" \notin p.els[i - 1].labelRel
                THEN i - 1
                ELSE -1
        radios == {j \in ElIds : /\ Attached(p, j) /\ IsRadioInput(p.els[j])
                                 /\ inWrapper => j = i}
    IN  IF inside THEN i
        ELSE IF prev > 0 THEN (IF IsRadioInput(p.els[prev]) THEN prev ELSE 0)
        ELSE IF prev < 0 THEN 0
        ELSE IF radios # {} THEN Min(radios)
        ELSE 0

\* What the script clicks when node n has no radio button: the node itself (a
\* click on a wrapper does nothing, 0).
JsNodeTarget(n) ==
    LET i == (n + 2) \div 3
        part == n - 3 * (i - 1)
    IN  IF part = 1 THEN 0 ELSE IF part = 2 THEN -i ELSE i

\* The elements with role="radio" whose text holds the value.
JsRoleRadios(p, value) ==
    {i \in ElIds : /\ Attached(p, i) /\ p.els[i].role = "radio"
                   /\ CiHas(p.els[i].ownText, value)}

\* RadioHandler._select_with_js
SelectWithJs(c, value) ==
    LET ByRoleRadio(radios) ==
            IF radios # {}
            THEN [done |-> TRUE,
                  ctx |-> [page |-> ClickOn(c.page, Min(radios)),
                           clicked |-> c.clicked \cup {Min(radios)}]]
            ELSE [done |-> FALSE, ctx |-> c]
        AtNode(n, radio) ==
            IF radio # 0
            THEN [done |-> TRUE,
                  ctx |-> [page |-> ClickOn(ScrollCenter(c.page, radio), radio),
                           clicked |-> c.clicked \cup {radio}]]
            ELSE [done |-> TRUE,
                  ctx |-> [page |-> ClickOn(c.page, JsNodeTarget(n)),
                           clicked |-> c.clicked \cup ({JsNodeTarget(n)} \ {0})]]
        ByNode(nodes) ==
            IF nodes # {} THEN AtNode(Min(nodes), JsRadioFor(c.page, Min(nodes)))
            ELSE ByRoleRadio(JsRoleRadios(c.page, value))
    IN  ByNode(JsRadioNodes(c.page, value))

\* The first visible one of the first five matches of a locator (0: none).
FirstVisibleOfFive(p, loc) ==
    LET FirstFive(M) ==
            {t \in M : Cardinality({u \in M : DocOrder(u) < DocOrder(t)}) < 5}
        VisibleOf(five) == FirstOf({t \in five : IsVisible(p, t)})
    IN  VisibleOf(FirstFive(Matches(p, loc)))

\* RadioHandler.select
RadioSelect(p, a, crash) ==
    LET target_label == Get(a.target_label, LabelTarget(""))
        given == Get(a.value, LabelTarget(""))
        chosen == IF Truthy(given) THEN given ELSE target_label
        value == chosen.label
        Scripted(js) == Returned(js.done, js.ctx)
        \* get_by_text(value, exact=False): the first visible of five
        Partial(c1, partial) ==
            IF partial # 0
            THEN Returned(TRUE, Interact("click", c1, partial, "").ctx)
            ELSE Scripted(SelectWithJs(c1, value))
        Exact(c1, exact) ==
            IF exact # 0 /\ IsVisible(c1.page, exact)
            THEN Returned(TRUE, Interact("click", c1, exact, "").ctx)
            ELSE Partial(c1, FirstVisibleOfFive(c1.page, ByText(value, FALSE)))
        \* get_by_text(value, exact=True): scroll to the first match, click it
        ByExactText(c0, exact) ==
            Exact(IF exact = 0 THEN c0
                  ELSE [c0 EXCEPT !.page = ScrollElementIntoView(c0.page, exact)],
                  exact)
        Tried(tried) ==
            IF tried.exc \/ tried.ret THEN tried
            ELSE ByExactText([page |-> tried.page, clicked |-> tried.clicked],
                             First(tried.page, ByText(value, TRUE)))
    IN  IF chosen.kind # "label" THEN Raised(Ctx(p))
        ELSE Tried(TryLocators(Ctx(p), RadioLocators(value), "click", "", crash))

(* DropdownHandler *)

\* The locator strategies of _handle_native_select, in order.
NativeSelectLocators(label) ==
    LET target_lower == NormalizeLabel(label) IN
    << Css({"select"}, {}, {}, {<<"name", "has", target_lower>>}, <<>>),
       Css({"select"}, {}, {}, {<<"id", "has", target_lower>>}, <<>>),
       CssNested,
       CssLabelRel({"next"}, {"select"}, {}, {}, label),
       CssLabelRel({"next", "sibling"}, {"select"}, {}, {}, label) >>

\* DropdownHandler._handle_native_select
HandleNativeSelect(c, label, value, crash) ==
    Pass(c, NativeSelectLocators(label), "select", value, crash)

\* The trigger strategies of _handle_custom_dropdown, in order.
DropdownTriggers(label) ==
    LET target_lower == NormalizeLabel(label) IN
    << ByRole("combobox", label),
       ByLabel(label, FALSE),
       Css({}, {}, {}, {<<"aria-label", "has", label>>}, <<>>),
       Css({}, {}, {}, {<<"data-testid", "has", target_lower>>}, <<>>),
       CssUnder("div", label, {"button"}, {}, {}),
       CssUnder("div", label, {}, {}, {"button"}),
       CssLabelRel({"next"}, {"div"}, {}, {}, label),
       CssLabelRel({"divsibling"}, {"button"}, {}, {}, label),
       CssLabelRel({"divsibling"}, {}, {}, {"combobox"}, label),
       CssLabelRel({"next", "sibling"}, {"div"}, {}, {}, label),
       Css({}, {}, {}, {<<"class", "has", "select">>}, <<label>>),
       Css({}, {}, {}, {<<"class", "has", "dropdown">>}, <<label>>),
       Css({}, {}, {}, {<<"class", "eq", "select__control">>}, <<label>>),
       Css({}, {}, {}, {<<"class", "eq", "MuiSelect-root">>}, <<label>>),
       Css({}, {}, {}, {<<"class", "eq", "ant-select">>}, <<label>>) >>

\* The option strategies of _handle_custom_dropdown, in order.
DropdownOptions(value) ==
    << ByRole("option", value),
       ByRole("menuitem", value),
       ByRoleHasText("listitem", value),
       Css({}, {}, {"option"}, {}, <<value>>),
       Css({}, {}, {"menuitem"}, {}, <<value>>),
       Css({"li"}, {}, {}, {}, <<value>>),
       Css({}, {}, {}, {<<"data-value", "eq", value>>}, <<>>),
       Css({}, {}, {}, {<<"data-value", "eq", Lower(value)>>}, <<>>),
       CssUnderText("listbox", value),
       CssUnder("ul", value, {"li"}, {}, {}),
       Css({}, {}, {}, {<<"class", "eq", "select__option">>}, <<value>>),
       Css({}, {}, {}, {<<"class", "eq", "MuiMenuItem-root">>}, <<value>>),
       Css({}, {}, {}, {<<"class", "eq", "ant-select-item">>}, <<value>>),
       ByText(value, TRUE) >>

\* The option loop: the first locator whose first match is visible is clicked.
RECURSIVE ClickOption(_, _, _)
ClickOption(c, locators, k) ==
    IF k > Len(locators) THEN [done |-> FALSE, ctx |-> c]
    ELSE LET Located(t) ==
                 IF t # 0 /\ IsVisible(c.page, t)
                 THEN [done |-> TRUE, ctx |-> Interact("click", c, t, "").ctx]
                 ELSE ClickOption(c, locators, k + 1)
         IN  Located(First(c.page, locators[k]))

\* DropdownHandler._handle_custom_dropdown: open the trigger (a pass, the wheel
\* outside any try, a second pass), click the option, and as the last resort
\* click the last visible thing that holds the value.
HandleCustomDropdown(c, label, value, crash) ==
    LET \* the last resort: the last visible thing that holds the value
        LastResort(ctx, holders) ==
            IF holders # {}
            THEN Returned(TRUE, Interact("click", ctx, LastOf(holders), "").ctx)
            ELSE Returned(FALSE, ctx)
        Chosen(option) ==
            IF option.done THEN Returned(TRUE, option.ctx)
            ELSE LastResort(option.ctx,
                            {t \in Matches(option.ctx.page, Css({}, {}, {}, {}, <<value>>)) :
                                IsVisible(option.ctx.page, t)})
        Opened(second) == Chosen(ClickOption(second.ctx, DropdownOptions(value), 1))
        Triggered(first) ==
            Opened(IF first.done THEN first
                   ELSE Pass([first.ctx EXCEPT !.page = Wheel(@, DropdownWheel)],
                             DropdownTriggers(label), "click", "", crash))
    IN  IF crash THEN Raised(c)
        ELSE Triggered(Pass(c, DropdownTriggers(label), "click", "", crash))

\* DropdownHandler.select: the native list box first, then the custom widget.
DropdownSelect(p, a, crash) ==
    LET target_label == Get(a.target_label, LabelTarget(""))
        given == Get(a.value, LabelTarget(""))
        label == target_label.label
        value == FormatTarget(given)
        Native(native) ==
            IF native.done THEN Returned(TRUE, native.ctx)
            ELSE HandleCustomDropdown(native.ctx, label, value, crash)
    IN  IF target_label.kind # "label" THEN Raised(Ctx(p))
        ELSE Native(HandleNativeSelect(Ctx(p), label, value, crash))

(* FileHandler *)

\* The names of the files the agent was given.
ResumeFileName == "resume.pdf"
CoverLetterFileName == "cover_letter.txt"

FileInput == Css({"input"}, {"file"}, {}, {}, <<>>)

\* The locator strategies of upload_resume, in order.
ResumeLocators(label) ==
    << Css({"input"}, {"file"}, {}, {<<"name", "hasci", "resume">>}, <<>>),
       Css({"input"}, {"file"}, {}, {<<"id", "hasci", "resume">>}, <<>>),
       Css({"input"}, {"file"}, {}, {<<"accept", "has", "pdf">>}, <<>>),
       CssLabelRel({"wrap"}, {"input"}, {"file"}, {}, label),
       CssLabelRel({"next", "sibling"}, {"input"}, {"file"}, {}, label),
       FileInput >>

\* The locator strategies of upload_cover_letter, in order.
CoverLocators(label) ==
    << Css({"input"}, {"file"}, {}, {<<"name", "hasci", "cover">>}, <<>>),
       Css({"input"}, {"file"}, {}, {<<"id", "hasci", "cover">>}, <<>>),
       CssLabelRel({"wrap"}, {"input"}, {"file"}, {}, label),
       CssLabelRel({"next", "sibling"}, {"input"}, {"file"}, {}, label) >>

\* The locator strategies of upload_file, in order.
UploadLocators(label) ==
    << CssLabelRel({"wrap"}, {"input"}, {"file"}, {}, label),
       CssLabelRel({"next", "sibling"}, {"input"}, {"file"}, {}, label),
       CssNested >>

\* The upload loop: set_input_files on the first match of the first locator
\* that has one.
RECURSIVE SetInputFiles(_, _, _, _)
SetInputFiles(c, locators, k, name) ==
    IF k > Len(locators) THEN [done |-> FALSE, ctx |-> c]
    ELSE LET Located(t) ==
                 IF t > 0 THEN [done |-> TRUE, ctx |-> [c EXCEPT !.page.files[t] = name]]
                 ELSE SetInputFiles(c, locators, k + 1, name)
         IN  Located(First(c.page, locators[k]))

\* FileHandler.upload_resume
UploadResume(p, a, e, crash) ==
    LET label == FormatTarget(Get(a.target_label, LabelTarget("Resume")))
        Uploaded(done) == Returned(done.done, done.ctx)
    IN  IF e.resume # "present" \/ crash THEN Returned(FALSE, Ctx(p))
        ELSE Uploaded(SetInputFiles(Ctx(p), ResumeLocators(label), 1, ResumeFileName))

\* The second file input of the page in document order.
SecondOfIsFirst(S) == FirstOf(S)

SecondOf(S) == FirstOf(S \ {FirstOf(S)})

UploadCoverLetterCountsFirst(p, a, e, crash) ==
    LET label == FormatTarget(Get(a.target_label, LabelTarget("Cover Letter")))
        Uploaded(inputs, done) ==
            IF done.done THEN Returned(TRUE, done.ctx)
            ELSE IF Cardinality(inputs) >= 2
            THEN Returned(TRUE, [Ctx(p) EXCEPT !.page.files[SecondOf(inputs)] =
                                                  CoverLetterFileName])
            ELSE Returned(TRUE, [Ctx(p) EXCEPT !.page.files[FirstOf(inputs)] =
                                                  CoverLetterFileName])
        Counted(inputs) ==
            IF inputs = {} THEN Returned(FALSE, Ctx(p))
            ELSE Uploaded(inputs, SetInputFiles(Ctx(p), CoverLocators(label), 1,
                                                CoverLetterFileName))
    IN  IF crash THEN Raised(Ctx(p))
        ELSE IF e.cover # "present" THEN Returned(FALSE, Ctx(p))
        ELSE Counted(Matches(p, FileInput))

\* FileHandler.upload_cover_letter: file_inputs.count() stands outside the try.
UploadCoverLetter(p, a, e, crash) ==
    LET label == FormatTarget(Get(a.target_label, LabelTarget("Cover Letter")))
        Uploaded(inputs, done) ==
            IF done.done THEN Returned(TRUE, done.ctx)
            ELSE IF Cardinality(inputs) >= 2
            THEN Returned(TRUE, [Ctx(p) EXCEPT !.page.files[SecondOf(inputs)] =
                                                  CoverLetterFileName])
            ELSE Returned(TRUE, [Ctx(p) EXCEPT !.page.files[FirstOf(inputs)] =
                                                  CoverLetterFileName])
        Counted(inputs) ==
            IF inputs = {} THEN Returned(FALSE, Ctx(p))
            ELSE Uploaded(inputs, SetInputFiles(Ctx(p), CoverLocators(label), 1,
                                                CoverLetterFileName))
    IN  IF e.cover # "present" THEN Returned(FALSE, Ctx(p))
        ELSE IF crash THEN Raised(Ctx(p))
        ELSE Counted(Matches(p, FileInput))

\* FileHandler.upload_file
UploadFile(p, a, e, crash) ==
    LET target_label == Get(a.target_label, LabelTarget(""))
        file_path == Get(a.file_path, LabelTarget(""))
        label_lower == Lower(target_label.label)
        Uploaded(done) == Returned(done.done, done.ctx)
    IN  IF ~Truthy(file_path)
        THEN IF target_label.kind # "label" THEN Raised(Ctx(p))
             ELSE IF Contains(label_lower, "resume")
                     \/ Contains(label_lower, "cv")
             THEN UploadResume(p, a, e, crash)
             ELSE IF Contains(label_lower, "cover")
             THEN UploadCoverLetter(p, a, e, crash)
             ELSE Returned(FALSE, Ctx(p))
        ELSE IF file_path.label \notin e.files \/ crash THEN Returned(FALSE, Ctx(p))
        ELSE Uploaded(SetInputFiles(Ctx(p), UploadLocators(FormatTarget(target_label)),
                                    1, file_path.label))

-----------------------------------------------------------------------------
(* FormController: the action router *)

ActionKinds == {"fill", "click", "select", "check", "radio", "upload_resume",
                "upload_cover_letter", "upload", "scroll_down", "scroll_up", "wait"}

\* handler(action) for the handler the routing table gives the kind.
Handle(p, a, e, crash) ==
    CASE a.type = "fill" -> Fill(p, a, e, crash)
      [] a.type = "click" -> HandleClick(p, a, crash)
      [] a.type = "select" -> DropdownSelect(p, a, crash)
      [] a.type = "check" -> Check(p, a, crash)
      [] a.type = "radio" -> RadioSelect(p, a, crash)
      [] a.type = "upload_resume" -> UploadResume(p, a, e, crash)
      [] a.type = "upload_cover_letter" -> UploadCoverLetter(p, a, e, crash)
      [] a.type = "upload" -> UploadFile(p, a, e, crash)
      [] a.type = "scroll_down" -> ScrollDown(p, crash)
      [] a.type = "scroll_up" -> ScrollUp(p, crash)
      [] OTHER -> Wait(p)

\* execute without the try around the handler: a raise goes to the caller.
ExecuteNoBoundary(p, a, e, crash) ==
    IF a.type \notin ActionKinds
    THEN [ret |-> FALSE, exc |-> FALSE, fault |-> FALSE, page |-> p, clicked |-> {}]
    ELSE LET Handled(r) ==
                 [ret |-> r.ret, exc |-> r.exc, fault |-> r.exc, page |-> r.page,
                  clicked |-> r.clicked]
         IN  Handled(Handle(p, a, e, crash))

ExecuteRoutesUnknownKinds(p, a, e, crash) ==
    LET Handled(r) ==
            [ret |-> IF r.exc THEN FALSE ELSE r.ret, exc |-> FALSE, fault |-> r.exc,
             page |-> r.page, clicked |-> r.clicked]
    IN  Handled(Handle(p, a, e, crash))

\* FormController.execute: route by kind; a raise of the handler becomes
\* False (fault records that it happened), an unknown kind is False.
Execute(p, a, e, crash) ==
    IF a.type \notin ActionKinds
    THEN [ret |-> FALSE, exc |-> FALSE, fault |-> FALSE, page |-> p, clicked |-> {}]
    ELSE LET Handled(r) ==
                 [ret |-> IF r.exc THEN FALSE ELSE r.ret, exc |-> FALSE, fault |-> r.exc,
                  page |-> r.page, clicked |-> r.clicked]
         IN  Handled(Handle(p, a, e, crash))

-----------------------------------------------------------------------------
(* VisionAgent: loop detection *)

\* len(self.action_history) < 4 / self.action_history[-4:]
RecentWindow == 4

\* len(self.action_history) >= 5 / self.action_history[-5:]
FailureWindow == 5

\* targets.count(targets[-1]) >= 3
RepeatThreshold == 3

\* if len(self.action_history) > 5
TruncateAbove == 5

\* self.action_history = self.action_history[-3:]
KeptAfterLoop == 3

\* f"{a.get('type', '')}:{a.get('target', '')}"; the types of the model hold no
\* colon, so the pair of type and formatted target stands for the string.
ActionStr(a) == <<a.type, FormatTarget(a.target)>>

\* seq[-n:]
LastN(seq, n) ==
    IF Len(seq) <= n THEN seq ELSE SubSeq(seq, Len(seq) - n + 1, Len(seq))

\* _detect_loop with the length guard one entry too low.
DetectLoopShortGuard(h) ==
    IF Len(h) < RecentWindow - 1 THEN [is_looping |-> FALSE, direction |-> ""]
    ELSE
      LET recent == LastN(h, RecentWindow)
          n == Len(recent)
      IN  IF Cardinality({recent[k].target : k \in 1..n}) = 1
             /\ ~(\A k \in 1..n : recent[k].success)
          THEN [is_looping |-> TRUE, direction |-> "scroll_down"]
          ELSE [is_looping |-> FALSE, direction |-> ""]

\* VisionAgent._detect_loop: (is_looping, suggested_action) for history h.
DetectLoop(h) ==
    IF Len(h) < RecentWindow THEN [is_looping |-> FALSE, direction |-> ""]
    ELSE
      LET recent == LastN(h, RecentWindow)
          n == Len(recent)
      IN  IF Cardinality({recent[k].target : k \in 1..n}) = 1
             /\ ~(\A k \in 1..n : recent[k].success)
          THEN [is_looping |-> TRUE, direction |-> "scroll_down"]
          ELSE IF Cardinality({recent[k].type : k \in 1..n}) = 1
                  /\ Cardinality({k \in 1..n : recent[k].target = recent[n].target})
                       >= RepeatThreshold
          THEN [is_looping |-> TRUE, direction |-> "scroll_down"]
          ELSE IF Cardinality({ActionStr(recent[k]) : k \in 1..n}) = 1
          THEN [is_looping |-> TRUE, direction |-> "scroll_down"]
          ELSE IF Len(h) >= FailureWindow
                  /\ ~(\E k \in 1..Len(LastN(h, FailureWindow)) :
                          LastN(h, FailureWindow)[k].success)
          THEN [is_looping |-> TRUE, direction |-> "scroll_up"]
          ELSE [is_looping |-> FALSE, direction |-> ""]

-----------------------------------------------------------------------------
(* VisionAgent: start-up and action execution *)

\* The labels _dismiss_popups looks for, in order.
Blockers == <<"Accept", "Agree", "Accept All", "Allow all", "Continue", "Got it",
              "OK", "Close", "Dismiss">>

\* VisionAgent._dismiss_popups from the k-th label on: for each label the first
\* of its two locators whose first match is visible is clicked.
RECURSIVE DismissPopups(_, _)
DismissPopups(c, k) ==
    IF k > Len(Blockers) THEN c
    ELSE LET Tried(r) ==
                 IF r.done THEN DismissPopups(r.ctx, k + 1) ELSE DismissPopups(c, k + 1)
         IN  Tried(ClickOption(c, <<ByRole("button", Blockers[k]),
                                    ByText(Blockers[k], FALSE)>>, 1))

\* f"{first} {last}".strip() for the names of the model.
JoinName(first_name, last_name) ==
    CASE last_name = "" -> first_name
      [] first_name = "" -> last_name
      [] OTHER -> "Ada Lovelace"

\* f"{city}, {state}".strip(", ") for the places of the model.
JoinPlace(city, state) ==
    CASE state = "" -> city
      [] city = "" -> state
      [] OTHER -> "London, England"

Or(a, b) == IF a # "" THEN a ELSE b

\* The (labels, value) pairs _prefill_obvious_fields collects from user data u
\* (add_fill drops a pair without a value), in order.
PrefillActions(u, cover_letter_text) ==
    SelectSeq(
      << [labels |-> <<"First Name", "Given Name">>, value |-> u.first_name],
         [labels |-> <<"Last Name", "Family Name", "Surname">>, value |-> u.last_name],
         [labels |-> <<"Full Name", "Name">>,
          value |-> Or(u.full_name, JoinName(u.first_name, u.last_name))],
         [labels |-> <<"Email", "Email Address">>, value |-> u.email],
         [labels |-> <<"Phone", "Phone Number", "Mobile">>, value |-> u.phone],
         [labels |-> <<"Street", "Street Address", "Address", "Address Line 1">>,
          value |-> u.street],
         [labels |-> <<"City">>, value |-> u.city],
         [labels |-> <<"State", "Province", "State/Province">>, value |-> u.state],
         [labels |-> <<"ZIP", "Zip Code", "Postal Code", "Postcode">>,
          value |-> u.zip_code],
         [labels |-> <<"Country">>, value |-> u.country],
         [labels |-> <<"Location", "Current Location">>,
          value |-> JoinPlace(u.city, u.state)],
         [labels |-> <<"LinkedIn", "LinkedIn Profile">>, value |-> u.linkedin],
         [labels |-> <<"GitHub", "Github">>, value |-> u.github],
         [labels |-> <<"Portfolio", "Website", "Personal Website", "URL">>,
          value |-> Or(u.portfolio, u.personal_website)],
         [labels |-> <<"Current Company", "Current Employer", "Company">>,
          value |-> u.company],
         [labels |-> <<"Current Title", "Job Title", "Role">>, value |-> u.title],
         [labels |-> <<"Salary Expectation", "Expected Salary",
                       "Compensation Expectation">>,
          value |-> u.salary_expectation],
         [labels |-> <<"Notice Period", "Availability", "Available Start Date">>,
          value |-> Or(u.notice_period, u.available_start_date)],
         [labels |-> <<"Cover Letter", "Cover letter text">>,
          value |-> cover_letter_text] >>,
      LAMBDA g : g.value # "")

\* _prefill_obvious_fields from the g-th pair and its l-th label on, s being
\* the page and the history so far: the first label of a pair whose fill
\* succeeds is recorded and ends the pair.
RECURSIVE Prefill(_, _, _, _, _)
Prefill(s, e, actions, g, l) ==
    IF g > Len(actions) THEN s
    ELSE IF l > Len(actions[g].labels) THEN Prefill(s, e, actions, g + 1, 1)
    ELSE LET label == actions[g].labels[l]
             Tried(r) ==
                 IF r.ret
                 THEN Prefill([page |-> r.page,
                               history |-> Append(s.history,
                                                  [step |-> 0, type |-> "prefill",
                                                   target |-> LabelTarget(label),
                                                   success |-> TRUE])],
                              e, actions, g + 1, 1)
                 ELSE Prefill([s EXCEPT !.page = r.page], e, actions, g, l + 1)
         IN  Tried(Execute(s.page,
                              Action("fill", LabelTarget(label),
                                     LabelTarget(actions[g].value), Absent, Absent),
                              e, FALSE))

\* VisionAgent._quick_file_uploads: the resume, then the cover letter.
QuickFileUploads(p, e) ==
    LET CoverLetter(resume) ==
            IF e.cover = "present"
            THEN UploadCoverLetter(resume, Action("", LabelTarget("Cover Letter"), Absent,
                                                  Absent, Absent), e, FALSE).page
            ELSE resume
    IN  CoverLetter(IF e.resume = "present"
                    THEN UploadResume(p, Action("", LabelTarget("Resume"), Absent, Absent,
                                                Absent), e, FALSE).page
                    ELSE p)

\* VisionAgent._execute_action: with Set-of-Mark on and an element_id in the
\* action, fill and click/check/select go to the marker; everything else goes
\* to the router. via: which of the two ran; el: the element the id resolved to.
ExecuteAction(p, a, e, crash) ==
    IF e.enable_som /\ Truthy(a.element_id) /\ a.type \in {"fill", "click", "check", "select"}
    THEN LET Marked(r) ==
                 [ret |-> r.ret, exc |-> FALSE, fault |-> crash, page |-> r.page,
                  clicked |-> r.clicked, via |-> "marker", el |-> r.el]
         IN  Marked(IF a.type = "fill"
                    THEN FillElement(p, a.element_id.id,
                                     Get(a.value, LabelTarget("")).label, crash)
                    ELSE ClickElement(p, a.element_id.id, crash))
    ELSE LET Routed(r) ==
                 [ret |-> r.ret, exc |-> r.exc, fault |-> r.fault, page |-> r.page,
                  clicked |-> r.clicked, via |-> "router", el |-> 0]
         IN  Routed(Execute(p, a, e, crash))

\* action.get('target_label', action.get('element_id'))
HistoryTarget(a) ==
    IF a.target_label.kind # "absent" THEN a.target_label
    ELSE IF a.element_id.kind # "absent" THEN a.element_id
    ELSE NoneTarget

-----------------------------------------------------------------------------
(* What the interfaces below start from *)

NoProbe == [op |-> "none", id |-> 0, ret |-> FALSE]
NoVerdict == [called |-> FALSE, is_looping |-> FALSE, direction |-> ""]
NoIssue == [n |-> 0, y |-> 0]
NoAction == Action("", Absent, Absent, Absent, Absent)
NoDecision == [status |-> "", action |-> NoAction, marked |-> 0, payload |-> ""]
NoOutcome == [returned |-> FALSE, ret |-> FALSE, why |-> "", closes |-> 0]
NoLast ==
    [called |-> FALSE, action |-> NoAction, crash |-> FALSE, ret |-> FALSE,
     exc |-> FALSE, fault |-> FALSE, clicked |-> {}, via |-> "", el |-> 0,
     pre |-> FreshPage([i \in ElIds |-> PlainDiv])]

\* User data without any of the fields the prefill reads.
NoUser ==
    [first_name |-> "", last_name |-> "", full_name |-> "", email |-> "",
     phone |-> "", street |-> "", city |-> "", state |-> "", zip_code |-> "",
     country |-> "", linkedin |-> "", github |-> "", portfolio |-> "",
     personal_website |-> "", company |-> "", title |-> "",
     salary_expectation |-> "", notice_period |-> "", available_start_date |-> ""]

\* The agent's configuration: resume and cover: "unset" (no path), "missing"
\* (a path to no file) or "present"; files: the other files that exist.
Env(resume, cover, enable_som, max_steps, user) ==
    [resume |-> resume, cover |-> cover,
     cover_letter_text |-> IF cover = "present" THEN "Dear team" ELSE "",
     files |-> {"portfolio.pdf"},
     enable_som |-> enable_som, max_steps |-> max_steps, user |-> user]

NoEnv == Env("unset", "unset", FALSE, 0, NoUser)

-----------------------------------------------------------------------------
(* The ElementMarker interface, called in any order on a changing page *)

\* The documents of the model: buttons, and a last element of any kind.
Documents ==
    {[i \in ElIds |-> IF i = NumEls THEN e ELSE ButtonEl] : e \in ElementKinds}

InitMarker ==
    /\ page \in {FreshPage(els) : els \in Documents}
    /\ env = NoEnv
    /\ markers = <<>>
    /\ probe = NoProbe
    /\ issued = NoIssue
    /\ prevIssued = NoIssue
    /\ unmarked = FALSE
    /\ last = NoLast
    /\ action_history = <<>>
    /\ verdict = NoVerdict
    /\ pc = "idle"
    /\ step = 0
    /\ decision = NoDecision
    /\ outcome = NoOutcome

\* inject_markers: the script's result becomes self.markers and is returned; a
\* raising page call returns [] and leaves self.markers alone.
Inject(fault) ==
    LET r == InjectionScript(page) IN
    IF fault
    THEN /\ probe' = [NoProbe EXCEPT !.op = "inject"]
         /\ UNCHANGED <<page, markers, issued, prevIssued, unmarked>>
    ELSE /\ page' = r.page
         /\ markers' = r.markers
         /\ probe' = [NoProbe EXCEPT !.op = "inject", !.ret = TRUE]
         /\ prevIssued' = issued
         /\ issued' = [n |-> Len(r.markers), y |-> page.scrollY]
         /\ unmarked' = FALSE

InjectMarkers == \E fault \in BOOLEAN : Inject(fault)

\* A removal that empties self.markers and leaves the page as it is.
RemoveLeavesPage(fault) ==
    /\ page' = page
    /\ markers' = <<>>
    /\ probe' = [NoProbe EXCEPT !.op = "remove", !.ret = ~fault]
    /\ issued' = NoIssue
    /\ prevIssued' = NoIssue
    /\ unmarked' = ~fault

\* remove_markers: run the removal script and empty self.markers; a raising page
\* call is logged and changes nothing.
Remove(fault) ==
    IF fault
    THEN /\ probe' = [NoProbe EXCEPT !.op = "remove"]
         /\ UNCHANGED <<page, markers, issued, prevIssued, unmarked>>
    ELSE /\ page' = RemovalScript(page)
         /\ markers' = <<>>
         /\ probe' = [NoProbe EXCEPT !.op = "remove", !.ret = TRUE]
         /\ issued' = NoIssue
         /\ prevIssued' = NoIssue
         /\ unmarked' = TRUE

RemoveMarkers == \E fault \in BOOLEAN : Remove(fault)

\* The ids a caller may hold: any id some injection can have issued.
CallerIds == 1..NumEls

ProbeInfo ==
    \E id \in CallerIds :
        LET info == GetElementInfo(page, id) IN
        /\ probe' = [op |-> "info", id |-> id, ret |-> info.found]
        /\ UNCHANGED <<page, markers, issued, prevIssued, unmarked>>

ProbeClick ==
    \E id \in CallerIds, fault \in BOOLEAN :
        LET r == ClickElement(page, id, fault) IN
        /\ page' = r.page
        /\ probe' = [op |-> "click", id |-> id, ret |-> r.ret]
        /\ UNCHANGED <<markers, issued, prevIssued, unmarked>>

ProbeFill ==
    \E id \in CallerIds, fault \in BOOLEAN :
        LET r == FillElement(page, id, "v", fault) IN
        /\ page' = r.page
        /\ probe' = [op |-> "fill", id |-> id, ret |-> r.ret]
        /\ UNCHANGED <<markers, issued, prevIssued, unmarked>>

\* The page moves under the marker: the user or a script scrolls it.
PageScroll ==
    \E dy \in {WheelStep, -WheelStep} :
        /\ page' = Wheel(page, dy)
        /\ page' # page
        /\ probe' = NoProbe
        /\ UNCHANGED <<markers, issued, prevIssued, unmarked>>

NextMarker ==
    /\ \/ InjectMarkers
       \/ RemoveMarkers
       \/ ProbeInfo
       \/ ProbeClick
       \/ ProbeFill
       \/ PageScroll
    /\ UNCHANGED <<env, last, action_history, verdict, runVars>>

SpecMarker == InitMarker /\ [][NextMarker]_vars

-----------------------------------------------------------------------------
(* _detect_loop, called on histories of every shape *)

\* The entries of the histories the detector is run on: two action types, a
\* label, and a label and an element id that are written alike.
DetectTypes == {"fill", "click"}
DetectTargets == {LabelTarget("Email"), LabelTarget("1"), IdTarget(1)}
DetectEntries ==
    [step : {1}, type : DetectTypes, target : DetectTargets, success : BOOLEAN]

\* Entries in front of the window of four differ in their outcome only.
OlderEntries ==
    [step : {1}, type : {"fill"}, target : {LabelTarget("Email")}, success : BOOLEAN]

SeqsUpTo(S, n) == UNION {[1..k -> S] : k \in 0..n}

DetectHistories ==
    {older \o recent :
        older \in SeqsUpTo(OlderEntries, MaxOlder),
        recent \in SeqsUpTo(DetectEntries, RecentWindow)}

InitDetect ==
    /\ page = FreshPage([i \in ElIds |-> ButtonEl])
    /\ env = NoEnv
    /\ markers = <<>>
    /\ probe = NoProbe
    /\ issued = NoIssue
    /\ prevIssued = NoIssue
    /\ unmarked = FALSE
    /\ last = NoLast
    /\ action_history \in DetectHistories
    /\ verdict = NoVerdict
    /\ pc = "idle"
    /\ step = 0
    /\ decision = NoDecision
    /\ outcome = NoOutcome

\* One call of _detect_loop on the history at hand.
CallDetectLoop ==
    /\ ~verdict.called
    /\ verdict' = [called |-> TRUE,
                   is_looping |-> DetectLoop(action_history).is_looping,
                   direction |-> DetectLoop(action_history).direction]
    /\ UNCHANGED <<action_history, markerVars, env, last, runVars>>

NextDetect == CallDetectLoop

SpecDetect == InitDetect /\ [][NextDetect]_vars

-----------------------------------------------------------------------------
(* The action router, called on documents of every kind *)

EmailInput ==
    [TextInput EXCEPT !.accName = "Email", !.labelText = "Email", !.labelRel = {"for"},
                      !.nameAttr = "email", !.idAttr = "email", !.within = "div"]
TermsCheckbox ==
    [CheckboxInput EXCEPT !.accName = "Terms", !.labelText = "Terms",
                          !.labelRel = {"wrap"}, !.nameAttr = "terms"]
\* A checkbox styled away behind its label.
StyledCheckbox ==
    [CheckboxInput EXCEPT !.labelText = "Terms", !.labelRel = {"for"},
                          !.idAttr = "terms", !.display = "none"]
SubmitButton == [ButtonEl EXCEPT !.accName = "Submit", !.ownText = "Submit"]
ResumeInput ==
    [PlainDiv EXCEPT !.tag = "input", !.type = "file", !.nameAttr = "resume",
                     !.accept = ".pdf"]
PlainFileInput == [PlainDiv EXCEPT !.tag = "input", !.type = "file"]
\* A file input that nothing but the file type it accepts tells apart.
PdfFileInput == [PlainFileInput EXCEPT !.accept = ".pdf"]
\* A text input that only its name attribute tells apart.
FirstNameInput == [TextInput EXCEPT !.nameAttr = "firstName"]
CountrySelect ==
    [PlainDiv EXCEPT !.tag = "select", !.accName = "Country", !.labelText = "Country",
                     !.labelRel = {"for"}, !.nameAttr = "country",
                     !.options = <<[label |-> "India", value |-> "IN"]>>]
\* A native list box that its label names through the for attribute only: it
\* does not follow the label as a sibling and its name says something else.
ResidenceSelect == [CountrySelect EXCEPT !.nameAttr = "loc"]
FemaleRadio ==
    [PlainDiv EXCEPT !.tag = "input", !.type = "radio", !.accName = "Female",
                     !.labelText = "Female", !.labelRel = {"wrap"},
                     !.valueAttr = "female"]
CoverTextarea ==
    [PlainDiv EXCEPT !.tag = "textarea", !.nameAttr = "cover_letter",
                     !.idAttr = "cover_letter"]
\* A custom dropdown: the trigger, and the option it shows once clicked.
CountryCombo ==
    [PlainDiv EXCEPT !.role = "combobox", !.accName = "Country",
                     !.ariaLabel = "Country"]
IndiaOption ==
    [PlainDiv EXCEPT !.tag = "li", !.role = "option", !.accName = "India",
                     !.ownText = "India", !.within = "listbox", !.popupOf = 1]

\* Two text inputs of one name, the first of them styled away.
NamedInput == [TextInput EXCEPT !.nameAttr = "email"]
HiddenNamedInput == [NamedInput EXCEPT !.display = "none"]

RouterKinds ==
    {EmailInput, TermsCheckbox, StyledCheckbox, SubmitButton, ResumeInput,
     PlainFileInput, FirstNameInput, CountrySelect, ResidenceSelect, FemaleRadio,
     CoverTextarea}

\* The documents the router is called on: plain blocks with one control among
\* them, or with a custom dropdown and its option, or with a hidden and a
\* shown input of one name, or with two file inputs.
RouterDocuments ==
    {[i \in ElIds |-> IF i = k THEN e ELSE PlainDiv] : k \in ElIds, e \in RouterKinds}
    \cup {[i \in ElIds |-> IF i = k THEN CountryCombo
                           ELSE IF i = k + 1 THEN IndiaOption ELSE PlainDiv] :
            k \in 1..(NumEls - 1)}
    \cup {[i \in ElIds |-> IF i = 1 THEN HiddenNamedInput
                           ELSE IF i = 2 THEN NamedInput ELSE PlainDiv]}
    \cup {[i \in ElIds |-> IF i = 1 THEN PlainFileInput
                           ELSE IF i = 2 THEN e ELSE PlainDiv] :
            e \in {PlainFileInput, PdfFileInput}}

\* The label and the value an action of a kind is naturally given.
NaturalLabel(kind) ==
    CASE kind = "fill" -> "Email"
      [] kind = "select" -> "Country"
      [] kind = "check" -> "Terms"
      [] kind = "radio" -> "Female"
      [] kind \in {"upload_resume", "upload"} -> "Resume"
      [] kind = "upload_cover_letter" -> "Cover Letter"
      [] OTHER -> "Submit"
NaturalValue(kind) ==
    CASE kind = "fill" -> "Ada"
      [] kind = "select" -> "India"
      [] OTHER -> "Female"

\* A fill of the first name.
FirstNameFill ==
    Action("fill", LabelTarget("First Name"), LabelTarget("Ada"), Absent, Absent)

\* The actions the router is given: of every kind, of one unknown kind and of
\* no kind, with
\* the label that names the control, a label nothing carries, None and no label
\* at all; with and without a value; uploads with a file that exists, one that
\* does not, and none; the fill of the first name; and fills of a cover
\* letter field and of a field that is a cover only.
RouterActions ==
    {Action(kind, target_label, value, Absent, file_path) :
        kind \in ActionKinds \cup {"hover", ""},
        target_label \in {LabelTarget("Nickname"), NoneTarget, Absent},
        value \in {Absent}, file_path \in {Absent}}
    \cup {Action(kind, LabelTarget(NaturalLabel(kind)), Absent, Absent, Absent) :
            kind \in ActionKinds}
    \cup UNION {{Action(kind, target_label, LabelTarget(NaturalValue(kind)), Absent,
                         Absent) :
                    target_label \in {LabelTarget(NaturalLabel(kind)),
                                      LabelTarget("Nickname")}} :
                 kind \in {"fill", "select", "radio"}}
    \cup {Action("upload", target_label, Absent, Absent, LabelTarget(path)) :
            target_label \in {LabelTarget("Resume"), LabelTarget("Nickname")},
            path \in {"portfolio.pdf", "gone.pdf"}}
    \cup {FirstNameFill}
    \cup {Action("fill", LabelTarget(label), LabelTarget("Ada"), Absent, Absent) :
            label \in {"Cover LETTER", "Cover"}}

RouterEnvs ==
    {Env(resume, cover, FALSE, 0, NoUser) :
        resume \in {"missing", "present"}, cover \in {"missing", "present"}}

InitRouter ==
    /\ page \in {FreshPage(els) : els \in RouterDocuments}
    /\ env \in RouterEnvs
    /\ markers = <<>>
    /\ probe = NoProbe
    /\ issued = NoIssue
    /\ prevIssued = NoIssue
    /\ unmarked = FALSE
    /\ last = NoLast
    /\ action_history = <<>>
    /\ verdict = NoVerdict
    /\ pc = "idle"
    /\ step = 0
    /\ decision = NoDecision
    /\ outcome = NoOutcome

\* One call of FormController.execute; crash: the page calls of this call raise.
Route(a, crash) ==
    LET Answered(r) ==
            /\ page' = r.page
            /\ last' = [called |-> TRUE, action |-> a, crash |-> crash, ret |-> r.ret,
                        exc |-> r.exc, fault |-> r.fault, clicked |-> r.clicked,
                        via |-> "router", el |-> 0, pre |-> page]
    IN  /\ Answered(Execute(page, a, env, crash))
        /\ UNCHANGED <<env, markers, probe, issued, prevIssued, unmarked,
                       action_history, verdict, runVars>>

\* The first call on the document.
RouteFirst ==
    /\ ~last.called
    /\ \E a \in RouterActions, crash \in BOOLEAN : Route(a, crash)

\* The same action is given again, as a caller that retries does.
RouteAgain ==
    /\ last.called
    /\ \E crash \in BOOLEAN : Route(last.action, crash)

NextRouter == RouteFirst \/ RouteAgain

SpecRouter == InitRouter /\ [][NextRouter]_vars

-----------------------------------------------------------------------------
(* VisionAgent.run: the look / think / act loop *)

\* User data with a first name and an email address.
AdaUser == [NoUser EXCEPT !.first_name = "Ada", !.email = "ada@example.org"]

\* The documents the loop runs on: plain blocks and one control.
RunDocuments ==
    {[i \in ElIds |-> IF i = k THEN e ELSE PlainDiv] :
        k \in {1, NumEls}, e \in {EmailInput, SubmitButton}}

RunEnvs ==
    {Env("unset", "unset", enable_som, MaxSteps, user) :
        enable_som \in BOOLEAN, user \in {NoUser, AdaUser}}

InitRun ==
    /\ page \in {FreshPage(els) : els \in RunDocuments}
    /\ env \in RunEnvs
    /\ markers = <<>>
    /\ probe = NoProbe
    /\ issued = NoIssue
    /\ prevIssued = NoIssue
    /\ unmarked = FALSE
    /\ last = NoLast
    /\ action_history = <<>>
    /\ verdict = NoVerdict
    /\ pc = "start"
    /\ step = 0
    /\ decision = NoDecision
    /\ outcome = NoOutcome

\* A return that leaves the browser open.
ReturnLeavesBrowserOpen(ret, why) ==
    /\ outcome' = [returned |-> TRUE, ret |-> ret, why |-> why,
                   closes |-> outcome.closes]
    /\ pc' = "done"

\* run returns ret; the finally clause closes the browser on the way out.
Return(ret, why) ==
    /\ outcome' = [returned |-> TRUE, ret |-> ret, why |-> why,
                   closes |-> outcome.closes + 1]
    /\ pc' = "done"

\* From page.goto to the loop: a navigation that raises is fatal; otherwise the
\* popups are dismissed, the obvious fields prefilled and the files attached.
Startup ==
    /\ pc = "start"
    /\ \E nav_fails \in BOOLEAN :
        IF nav_fails
        THEN /\ Return(FALSE, "fatal")
             /\ UNCHANGED <<page, action_history, step>>
        ELSE LET Prefilled(prefilled) ==
                     /\ page' = QuickFileUploads(prefilled.page, env)
                     /\ action_history' = prefilled.history
                 Dismissed(dismissed) ==
                     Prefilled(Prefill([page |-> dismissed, history |-> action_history],
                                       env,
                                       PrefillActions(env.user, env.cover_letter_text),
                                       1, 1))
             IN  /\ Dismissed(DismissPopups(Ctx(page), 1).page)
                 /\ step' = 0
                 /\ pc' = "look"
                 /\ UNCHANGED outcome
    /\ UNCHANGED <<env, markers, probe, issued, prevIssued, unmarked, last, verdict,
                   decision>>

\* A LOOK that leaves the step counter alone.
LookKeepsCount ==
    /\ pc = "look"
    /\ step < env.max_steps
    /\ step' = step
    /\ pc' = "think"
    /\ IF env.enable_som
       THEN \E fault \in BOOLEAN : (fault => step < FaultySteps) /\ Inject(fault)
       ELSE UNCHANGED markerVars
    /\ UNCHANGED <<env, last, action_history, verdict, decision, outcome>>

\* LOOK: the loop test, the step counter and, with Set-of-Mark, the injection.
\* The marker's page calls may raise in the first FaultySteps iterations.
Look ==
    /\ pc = "look"
    /\ step < env.max_steps
    /\ step' = step + 1
    /\ pc' = "think"
    /\ IF env.enable_som
       THEN \E fault \in BOOLEAN : (fault => step < FaultySteps) /\ Inject(fault)
       ELSE UNCHANGED markerVars
    /\ UNCHANGED <<env, last, action_history, verdict, decision, outcome>>

\* The loop test fails and run reports success.
ExhaustedReportsSuccess ==
    /\ pc = "look"
    /\ step >= env.max_steps
    /\ Return(TRUE, "budget")
    /\ UNCHANGED <<markerVars, env, last, action_history, verdict, step, decision>>

\* The loop test fails: the step budget is spent.
Exhausted ==
    /\ pc = "look"
    /\ step >= env.max_steps
    /\ Return(FALSE, "budget")
    /\ UNCHANGED <<markerVars, env, last, action_history, verdict, step, decision>>

\* The action the oracle gives for element e: a fill for what takes text, a
\* click for the rest, under the element's name.
ActionFor(e, element_id) ==
    IF Fillable(e)
    THEN Action("fill", LabelTarget(e.accName), LabelTarget("ada@example.org"),
                element_id, Absent)
    ELSE Action("click", LabelTarget(e.accName), Absent, element_id, Absent)

\* The JSON objects the oracle can answer with: completed, error, or an action:
\* a fill for a field the page does not have, or an action on an interactive
\* element, with its element_id when the Set-of-Mark prompt was used
\* (Set-of-Mark on and self.markers not empty). marked: the element this
\* iteration's injection marked with that id (0: none). payload: the form of
\* the answer the decision was read from.
Decisions ==
    {[NoDecision EXCEPT !.status = "completed"],
     [NoDecision EXCEPT !.status = "error"],
     [status |-> "in_progress",
      action |-> Action("fill", LabelTarget("Nickname"), LabelTarget("Ada"), Absent,
                        Absent),
      marked |-> 0, payload |-> ""]}
    \cup
    IF env.enable_som /\ markers # <<>>
    THEN {[status |-> "in_progress",
           action |-> ActionFor(page.els[markers[k].el], IdTarget(markers[k].id)),
           marked |-> IF probe.op = "inject" /\ probe.ret THEN markers[k].el ELSE 0,
           payload |-> ""] :
            k \in 1..Len(markers)}
    ELSE {[status |-> "in_progress", action |-> ActionFor(page.els[i], Absent),
           marked |-> 0, payload |-> ""] :
            i \in {j \in ElIds : Interactive(page.els[j])}}

\* The empty JSON object.
EmptyObject == NoDecision

\* The content of the oracle's answer: none at all, prose without a JSON
\* object, or a JSON object, bare, in a code fence, or amid prose.
Payloads ==
    {[form |-> "absent", object |-> EmptyObject],
     [form |-> "prose", object |-> EmptyObject]}
    \cup {[form |-> "bare", object |-> d] : d \in Decisions \cup {EmptyObject}}
    \cup {[form |-> f, object |-> [NoDecision EXCEPT !.status = "completed"]] :
            f \in {"fenced", "embedded"}}

\* extract_json_from_response: json.loads on the text, then on what the three
\* patterns find in it; None when nothing parses. json.loads raises a TypeError
\* on a text that is None, which no except clause here takes.
ExtractJson(text) ==
    CASE text.form = "absent" -> [raised |-> TRUE, found |-> FALSE, object |-> EmptyObject]
      [] text.form \in {"bare", "fenced", "embedded"} ->
            [raised |-> FALSE, found |-> TRUE, object |-> text.object]
      [] OTHER -> [raised |-> FALSE, found |-> FALSE, object |-> EmptyObject]

\* _analyze_page, from the content of the response on: a result that is None or
\* empty gives the error decision, any other result is the decision.
AnalyzePage(text) ==
    LET Parsed(r) ==
            [raised |-> r.raised,
             decision |-> IF ~r.found \/ r.object = EmptyObject
                          THEN [NoDecision EXCEPT !.status = "error"]
                          ELSE r.object]
    IN  Parsed(ExtractJson(text))

\* THINK: the screenshot and the oracle's answer; either may raise, and so
\* does the parsing of an answer without content: all of it is fatal.
Think ==
    /\ pc = "think"
    /\ \E raises \in BOOLEAN :
        IF raises
        THEN Return(FALSE, "fatal") /\ UNCHANGED decision
        ELSE \E text \in Payloads :
                LET Analyzed(r) ==
                        IF r.raised
                        THEN /\ Return(FALSE, "fatal")
                             /\ decision' = [decision EXCEPT !.payload = text.form]
                        ELSE /\ decision' = [r.decision EXCEPT !.payload = text.form]
                             /\ pc' = "unmark"
                             /\ UNCHANGED outcome
                IN  Analyzed(AnalyzePage(text))
    /\ UNCHANGED <<markerVars, env, last, action_history, verdict, step>>

\* An unmarking after which an error status goes on to the action.
UnmarkGoesOnAfterError ==
    /\ pc = "unmark"
    /\ IF env.enable_som
       THEN \E fault \in BOOLEAN : (fault => step <= FaultySteps) /\ Remove(fault)
       ELSE UNCHANGED markerVars
    /\ CASE decision.status = "completed" ->
                \E proof_fails \in BOOLEAN :
                    IF proof_fails THEN Return(FALSE, "fatal")
                    ELSE Return(TRUE, "completed")
         [] decision.status = "error" -> pc' = "act" /\ UNCHANGED outcome
         [] OTHER -> pc' = "act" /\ UNCHANGED outcome
    /\ UNCHANGED <<env, last, action_history, verdict, step, decision>>

\* The markers are removed, then a completed or error status ends the run. On
\* completed the confirmation screenshot is taken first: a capture that raises
\* (proof_fails) is fatal.
Unmark ==
    /\ pc = "unmark"
    /\ IF env.enable_som
       THEN \E fault \in BOOLEAN : (fault => step <= FaultySteps) /\ Remove(fault)
       ELSE UNCHANGED markerVars
    /\ CASE decision.status = "completed" ->
                \E proof_fails \in BOOLEAN :
                    IF proof_fails THEN Return(FALSE, "fatal")
                    ELSE Return(TRUE, "completed")
         [] decision.status = "error" -> Return(FALSE, "error")
         [] OTHER -> pc' = "act" /\ UNCHANGED outcome
    /\ UNCHANGED <<env, last, action_history, verdict, step, decision>>

HistoryEntrySucceeded(a, success) ==
    [step |-> step, type |-> a.type, target |-> HistoryTarget(a), success |-> TRUE]

\* The entry the loop appends to the history for the action it has executed.
HistoryEntry(a, success) ==
    [step |-> step, type |-> a.type, target |-> HistoryTarget(a), success |-> success]

\* An ACT that runs a failed action again on the decision it has.
ActRetriesFailure ==
    /\ pc = "act"
    /\ \E crash \in BOOLEAN, wheel_fails \in BOOLEAN :
        LET a == decision.action
            \* the loop check on the history with the action recorded
            Recorded(r, history, loop) ==
                /\ wheel_fails => loop.is_looping
                /\ verdict' = [called |-> TRUE, is_looping |-> loop.is_looping,
                               direction |-> loop.direction]
                /\ IF ~loop.is_looping
                   THEN /\ page' = r.page
                        /\ action_history' = history
                        /\ pc' = IF r.ret THEN "look" ELSE "act"
                        /\ UNCHANGED outcome
                   ELSE IF wheel_fails
                   THEN /\ page' = r.page
                        /\ action_history' = history
                        /\ Return(FALSE, "fatal")
                   ELSE /\ page' = Wheel(r.page, IF loop.direction = "scroll_up"
                                                 THEN -WheelStep ELSE WheelStep)
                        /\ action_history' = IF Len(history) > TruncateAbove
                                             THEN LastN(history, KeptAfterLoop)
                                             ELSE history
                        /\ pc' = "look"
                        /\ UNCHANGED outcome
            Appended(r, history) == Recorded(r, history, DetectLoop(history))
            Ran(r) ==
                /\ last' = [called |-> TRUE, action |-> a, crash |-> crash, ret |-> r.ret,
                            exc |-> r.exc, fault |-> r.fault, clicked |-> r.clicked,
                            via |-> r.via, el |-> r.el, pre |-> page]
                /\ Appended(r, Append(action_history, HistoryEntry(a, r.ret)))
        IN  Ran(ExecuteAction(page, a, env, crash))
    /\ UNCHANGED <<env, markers, probe, issued, prevIssued, unmarked, step, decision>>

\* ACT: execute the action, record it, detect a loop and, in a loop, turn the
\* wheel and cut the history. crash: the page calls of the action raise;
\* wheel_fails: the recovery wheel raises, which is fatal.
Act ==
    /\ pc = "act"
    /\ \E crash \in BOOLEAN, wheel_fails \in BOOLEAN :
        LET a == decision.action
            \* the loop check on the history with the action recorded
            Recorded(r, history, loop) ==
                /\ wheel_fails => loop.is_looping
                /\ verdict' = [called |-> TRUE, is_looping |-> loop.is_looping,
                               direction |-> loop.direction]
                /\ IF ~loop.is_looping
                   THEN /\ page' = r.page
                        /\ action_history' = history
                        /\ pc' = "look"
                        /\ UNCHANGED outcome
                   ELSE IF wheel_fails
                   THEN /\ page' = r.page
                        /\ action_history' = history
                        /\ Return(FALSE, "fatal")
                   ELSE /\ page' = Wheel(r.page, IF loop.direction = "scroll_up"
                                                 THEN -WheelStep ELSE WheelStep)
                        /\ action_history' = IF Len(history) > TruncateAbove
                                             THEN LastN(history, KeptAfterLoop)
                                             ELSE history
                        /\ pc' = "look"
                        /\ UNCHANGED outcome
            Appended(r, history) == Recorded(r, history, DetectLoop(history))
            Ran(r) ==
                /\ last' = [called |-> TRUE, action |-> a, crash |-> crash, ret |-> r.ret,
                            exc |-> r.exc, fault |-> r.fault, clicked |-> r.clicked,
                            via |-> r.via, el |-> r.el, pre |-> page]
                /\ Appended(r, Append(action_history, HistoryEntry(a, r.ret)))
        IN  Ran(ExecuteAction(page, a, env, crash))
    /\ UNCHANGED <<env, markers, probe, issued, prevIssued, unmarked, step, decision>>

\* The KeyboardInterrupt of a SIGINT: raised in the main thread wherever run is,
\* taken by none of the 'except Exception' clauses, it leaves run through the
\* finally clause, which closes the browser; run returns nothing. At ACT it
\* cuts the executor short, before or after its page calls (acted), and no
\* history entry is recorded.
Interrupt ==
    /\ pc # "done"
    /\ step <= FaultySteps
    /\ outcome' = [returned |-> FALSE, ret |-> FALSE, why |-> "interrupt",
                   closes |-> outcome.closes + 1]
    /\ pc' = "done"
    /\ IF pc = "act"
       THEN \E crash \in BOOLEAN, acted \in BOOLEAN :
                LET Cut(r) == page' = IF acted THEN r.page ELSE page
                IN  Cut(ExecuteAction(page, decision.action, env, crash))
       ELSE page' = page
    /\ UNCHANGED <<env, markers, probe, issued, prevIssued, unmarked, last,
                   action_history, verdict, step, decision>>

NextRun == Startup \/ Look \/ Exhausted \/ Think \/ Unmark \/ Act \/ Interrupt

SpecRun == InitRun /\ [][NextRun]_vars

\* run is sequential code: every step it takes moves it to another position,
\* and it has a step to take wherever it is until it has returned.
Moves ==
    /\ pc # "done"
    /\ pc' \in {"look", "think", "unmark", "act", "done"}
    /\ pc' # pc

\* The run as a process that keeps going: a position that is reached is left.
SpecRunLive == InitRun /\ [][NextRun]_vars /\ WF_pc(Moves)

-----------------------------------------------------------------------------
(* The start-up of run on forms with name fields and file inputs *)

\* User data with a first and a last name.
LovelaceUser == [AdaUser EXCEPT !.last_name = "Lovelace"]

\* A text input under the label "First Name".
FirstNameField ==
    [TextInput EXCEPT !.accName = "First Name", !.labelText = "First Name",
                      !.labelRel = {"for"}, !.nameAttr = "first_name",
                      !.idAttr = "first_name"]

\* The documents run starts on: plain blocks with one field or file input among
\* them, or with two file inputs.
StartupDocuments ==
    {[i \in ElIds |-> IF i = k THEN e ELSE PlainDiv] :
        k \in ElIds, e \in {FirstNameField, EmailInput, PlainFileInput, ResumeInput}}
    \cup {[i \in ElIds |-> IF i \in {1, 2} THEN PlainFileInput ELSE PlainDiv]}

StartupEnvs ==
    {Env(resume, cover, FALSE, MaxSteps, user) :
        resume \in {"missing", "present"}, cover \in {"missing", "present"},
        user \in {NoUser, AdaUser, LovelaceUser}}

InitStartup ==
    /\ page \in {FreshPage(els) : els \in StartupDocuments}
    /\ env \in StartupEnvs
    /\ markers = <<>>
    /\ probe = NoProbe
    /\ issued = NoIssue
    /\ prevIssued = NoIssue
    /\ unmarked = FALSE
    /\ last = NoLast
    /\ action_history = <<>>
    /\ verdict = NoVerdict
    /\ pc = "start"
    /\ step = 0
    /\ decision = NoDecision
    /\ outcome = NoOutcome

NextStartup == Startup

SpecStartup == InitStartup /\ [][NextStartup]_vars

-----------------------------------------------------------------------------
(* Claims about the ElementMarker, checked under SpecMarker *)

Lookups == {"info", "click", "fill"}

\* The elements an injection marks on page p: interactive and not filtered out.
Eligible(p) ==
    {i \in ElIds : Attached(p, i) /\ Interactive(p.els[i]) /\ ~Skipped(p, i)}

\* C5: after two injections with a page change and no removal in between, a
\* lookup (get_element_info, click_element, fill_element) with an id issued by
\* the earlier injection reports not-found / failure.
C5_StaleIdDoesNotResolve ==
    (/\ probe.op \in Lookups
     /\ probe.id <= prevIssued.n
     /\ prevIssued.y # issued.y)
    => ~probe.ret

\* C6: after remove_markers succeeded, and until the next injection, no overlay
\* and no id attribute is left on the page, the manifest is empty and every id
\* lookup fails.
C6_RemovedMeansUnmarked ==
    unmarked =>
        /\ page.overlays = {}
        /\ \A i \in ElIds : page.vaId[i] = 0
        /\ markers = <<>>
        /\ probe.op \in Lookups => ~probe.ret
        /\ \A id \in CallerIds :
              /\ ~GetElementInfo(page, id).found
              /\ ~ClickElement(page, id, FALSE).ret
              /\ ~FillElement(page, id, "v", FALSE).ret

\* C6 witness: a lookup was made on a page whose markers had been removed.
C6_Witness == unmarked /\ probe.op = "click" /\ probe.id = 1 /\ page.scrollY > 0

\* C7: the manifest a successful injection returns has the ids 1..n, given in
\* document order to the n interactive, rendered, in-viewport elements, and each
\* of its ids is carried by exactly one element of the page.
C7_ManifestIds ==
    (probe.op = "inject" /\ probe.ret) =>
        /\ Len(markers) = Cardinality(Eligible(page))
        /\ \A k \in 1..Len(markers) :
              /\ markers[k].id = k
              /\ markers[k].el \in Eligible(page)
              /\ \A l \in 1..Len(markers) : k < l => markers[k].el < markers[l].el
              /\ {i \in ElIds : page.vaId[i] = k} = {markers[k].el}

\* The part of C7 that does hold: ids 1..n in document order on the eligible
\* elements, each element of the manifest carrying its id.
C7_ManifestIdsSequential ==
    (probe.op = "inject" /\ probe.ret) =>
        /\ Len(markers) = Cardinality(Eligible(page))
        /\ \A k \in 1..Len(markers) :
              /\ markers[k].id = k
              /\ markers[k].el \in Eligible(page)
              /\ \A l \in 1..Len(markers) : k < l => markers[k].el < markers[l].el
              /\ page.vaId[markers[k].el] = k

-----------------------------------------------------------------------------
(* Claims about loop detection, checked under SpecDetect *)

\* C8: loop detection never declares a loop while the history holds fewer than
\* 4 entries.
C8_NoLoopBelowFour ==
    (verdict.called /\ Len(action_history) < 4) => ~verdict.is_looping

\* C8 witness: the detector ran on a history of 3 entries that all failed on one
\* target.
C8_Witness ==
    /\ verdict.called
    /\ Len(action_history) = 3
    /\ \A k \in 1..3 : /\ ~action_history[k].success
                        /\ action_history[k].target = action_history[1].target
                        /\ action_history[k].type = action_history[1].type

\* The four rules as the claim words them, on the entries themselves.
Last4 == LastN(action_history, 4)
Last5 == LastN(action_history, 5)
RuleA ==
    /\ \A k \in 1..4 : Last4[k].target = Last4[4].target
    /\ \E k \in 1..4 : ~Last4[k].success
RuleB ==
    /\ \A k \in 1..4 : Last4[k].type = Last4[4].type
    /\ Cardinality({k \in 1..4 : Last4[k].target = Last4[4].target}) >= 3
RuleC ==
    \A k \in 1..4 : Last4[k].type = Last4[4].type /\ Last4[k].target = Last4[4].target
RuleD ==
    /\ Len(action_history) >= 5
    /\ \A k \in 1..5 : ~Last5[k].success

\* C9: with at least 4 entries, a loop is declared exactly when rule (a), (b),
\* (c) or (d) holds.
C9_LoopExactlyOnRules ==
    (verdict.called /\ Len(action_history) >= 4) =>
        (verdict.is_looping <=> (RuleA \/ RuleB \/ RuleC \/ RuleD))

\* C11: when loop detection fires, the recovery direction is scroll_up if none
\* of the last 5 entries succeeded (rule (d) is satisfied) and scroll_down
\* otherwise.
C11_ScrollUpIffFailureRun ==
    (verdict.called /\ verdict.is_looping) =>
        verdict.direction = IF RuleD THEN "scroll_up" ELSE "scroll_down"

\* The detector with its third test, the one on the action strings, left out.
DetectLoopWithoutRuleC(h) ==
    IF Len(h) < RecentWindow THEN [is_looping |-> FALSE, direction |-> ""]
    ELSE
      LET recent == LastN(h, RecentWindow)
          n == Len(recent)
      IN  IF Cardinality({recent[k].target : k \in 1..n}) = 1
             /\ ~(\A k \in 1..n : recent[k].success)
          THEN [is_looping |-> TRUE, direction |-> "scroll_down"]
          ELSE IF Cardinality({recent[k].type : k \in 1..n}) = 1
                  /\ Cardinality({k \in 1..n : recent[k].target = recent[n].target})
                       >= RepeatThreshold
          THEN [is_looping |-> TRUE, direction |-> "scroll_down"]
          ELSE IF Len(h) >= FailureWindow
                  /\ ~(\E k \in 1..Len(LastN(h, FailureWindow)) :
                          LastN(h, FailureWindow)[k].success)
          THEN [is_looping |-> TRUE, direction |-> "scroll_up"]
          ELSE [is_looping |-> FALSE, direction |-> ""]

\* C34: the third test of the detector adds nothing to the two before it: when
\* the last four entries are one pair of type and target, the first or the
\* second test holds, and on every history the detector without the third test
\* gives the verdict and the direction the detector gives.
C34_RuleCSubsumed ==
    verdict.called =>
        /\ (Len(action_history) >= 4 /\ RuleC) => (RuleA \/ RuleB)
        /\ verdict.is_looping = DetectLoopWithoutRuleC(action_history).is_looping
        /\ verdict.direction = DetectLoopWithoutRuleC(action_history).direction

-----------------------------------------------------------------------------
(* Claims about the action router, checked under SpecRouter *)

\* C1: FormController.execute returns a boolean for every action of every
\* ActionKind and lets no raise of an executor reach its caller: a raise
\* inside the executor becomes the result false.
C1_ExecuteReturnsBoolean ==
    (last.called /\ last.action.type \in ActionKinds) =>
        /\ last.ret \in BOOLEAN
        /\ ~last.exc
        /\ last.fault => ~last.ret

\* C1 witness: an executor raised inside a routed call (a check whose label is
\* None on a page that works).
C1_Witness ==
    /\ last.called
    /\ last.action.type = "check"
    /\ last.action.target_label = NoneTarget
    /\ ~last.crash
    /\ last.fault

\* All locators of a strategy list.
AllMatches(p, locators) == UNION {Matches(p, locators[k]) : k \in 1..Len(locators)}

\* The targets the strategies of action a find on page p: those of its locator
\* lists and of its script fallbacks, for the label (or value) a names.
StrategyMatches(p, a) ==
    LET label == FormatTarget(Get(a.target_label, LabelTarget("")))
        given == Get(a.value, LabelTarget(""))
        value == FormatTarget(given)
        option == IF Truthy(given) THEN value ELSE label
        byLabel == Lower(label)
    IN  CASE a.type = "fill" ->
                AllMatches(p, FillLocators(label)) \cup JsFillTargets(p, label)
                \cup (IF IsCoverLetterField(label)
                      THEN Matches(p, Css({"textarea"}, {}, {}, {}, <<>>)) ELSE {})
          [] a.type = "click" ->
                AllMatches(p, ClickLocators(label)) \cup JsClickTargets(p, label)
          [] a.type = "check" ->
                AllMatches(p, CheckLocators(label)) \cup JsCheckLabels(p, label)
                \cup JsXPathTargets(p, label)
          [] a.type = "radio" ->
                AllMatches(p, RadioLocators(option))
                \cup Matches(p, ByText(option, FALSE))
                \cup {ElOf(JsNodeTarget(n)) + (n + 2) \div 3 : n \in JsRadioNodes(p, option)}
                \cup JsRoleRadios(p, option)
          [] a.type = "select" ->
                AllMatches(p, NativeSelectLocators(label))
                \cup AllMatches(p, DropdownTriggers(label))
                \cup AllMatches(p, DropdownOptions(value))
                \cup Matches(p, Css({}, {}, {}, {}, <<value>>))
          [] a.type = "upload_resume" ->
                AllMatches(p, ResumeLocators(
                    FormatTarget(Get(a.target_label, LabelTarget("Resume")))))
          [] a.type = "upload_cover_letter" -> Matches(p, FileInput)
          [] a.type = "upload" ->
                IF Truthy(Get(a.file_path, LabelTarget("")))
                THEN AllMatches(p, UploadLocators(label))
                ELSE IF Contains(byLabel, "resume") \/ Contains(byLabel, "cv")
                THEN AllMatches(p, ResumeLocators(label))
                ELSE IF Contains(byLabel, "cover") THEN Matches(p, FileInput)
                ELSE {}
          [] OTHER -> {}

\* The last routed call was given a target no strategy matches in the DOM.
Unresolvable ==
    /\ last.called
    /\ last.action.type \in ActionKinds
    /\ StrategyMatches(last.pre, last.action) = {}

\* C2 (as claimed): for every supported ActionKind, a routed call with a target
\* that no strategy can match in the DOM returns false and raises nothing.
C2_UnresolvableReturnsFalse ==
    Unresolvable => (~last.ret /\ ~last.exc)

TargetKinds == {"fill", "click", "select", "check", "radio", "upload_resume",
                "upload_cover_letter", "upload"}

\* C2 (amended): a routed call with a target that no strategy can match raises
\* nothing; for the eight kinds that resolve a target it returns false, and
\* scroll_down, scroll_up and wait, which resolve none, return true unless the
\* page call itself fails.
C2_UnresolvableFailsForTargetKinds ==
    Unresolvable =>
        /\ ~last.exc
        /\ last.action.type \in TargetKinds => ~last.ret
        /\ (last.action.type \notin TargetKinds /\ ~last.fault) => last.ret

\* C2 witness: a fill for a label nothing on a working page carries was routed.
C2_Witness ==
    /\ Unresolvable
    /\ last.action.type = "fill"
    /\ last.action.target_label = LabelTarget("Nickname")
    /\ ~last.crash
    /\ \E i \in ElIds : last.pre.els[i].tag = "input"

\* The checkboxes the label of the last routed action names.
NamedCheckboxes ==
    {i \in ElIds : /\ last.pre.els[i].type = "checkbox"
                   /\ last.action.target_label.kind = "label"
                   /\ last.pre.els[i].labelText = last.action.target_label.label}

\* C3: a check on a control that is already checked returns success, does not
\* click the control (or its label) again, and leaves it checked.
C3_CheckIsIdempotent ==
    (last.called /\ last.action.type = "check" /\ ~last.crash) =>
        \A i \in NamedCheckboxes :
            last.pre.checked[i] =>
                /\ last.ret
                /\ i \notin last.clicked /\ (-i) \notin last.clicked
                /\ page.checked[i]

\* The file the upload action a is about is not on disk: the resume, the cover
\* letter, or the file the action gives the path of.
FileAbsent(a, e) ==
    CASE a.type = "upload_resume" -> e.resume # "present"
      [] a.type = "upload_cover_letter" -> e.cover # "present"
      [] a.type = "upload" -> Truthy(a.file_path) /\ a.file_path.label \notin e.files
      [] OTHER -> FALSE

\* C19: an upload whose file is absent returns false without raising and
\* without a page call: the page is as it was, no file input is set, and the
\* outcome is the same when the page calls of that moment would raise.
C19_AbsentFileIsSoftFailure ==
    (last.called /\ FileAbsent(last.action, env)) =>
        /\ ~last.ret /\ ~last.exc /\ ~last.fault
        /\ page = last.pre
        /\ page.files = last.pre.files

\* C19 witness: a cover letter that is absent was asked for on a document with
\* a file input, at a moment when every page call raises.
C19_Witness ==
    /\ last.called /\ last.action.type = "upload_cover_letter"
    /\ env.cover = "missing" /\ last.crash
    /\ Matches(last.pre, FileInput) # {}
    /\ ~last.ret

\* C20: a fill of "First Name" with "Ada", on a working page whose one control
\* is an input with name="firstName", succeeds and puts the value in that
\* input.
C20_FirstNameFilledByName ==
    (/\ last.called /\ last.action = FirstNameFill /\ ~last.crash
     /\ \E i \in ElIds : last.pre.els[i] = FirstNameInput) =>
        /\ last.ret
        /\ \A i \in ElIds : last.pre.els[i] = FirstNameInput => page.value[i] = "Ada"

\* The native list boxes of the page before the last call that the label of
\* the action names, that show, and that hold the option asked for.
NativeSelectsAskedFor ==
    {i \in ElIds :
        /\ last.pre.els[i].tag = "select"
        /\ IsVisible(last.pre, i)
        /\ last.action.target_label.kind = "label"
        /\ last.pre.els[i].labelText = last.action.target_label.label
        /\ SelectOption(last.pre.els[i],
                        FormatTarget(Get(last.action.value, LabelTarget("")))).ok}

\* C21: a select on a native list box that holds the option asked for succeeds
\* on the native path: the option is selected and nothing is clicked, neither
\* a trigger nor an option.
C21_NativeSelectWithoutClick ==
    (last.called /\ last.action.type = "select" /\ ~last.crash
        /\ NativeSelectsAskedFor # {}) =>
        /\ last.ret
        /\ last.clicked = {}
        /\ \E i \in NativeSelectsAskedFor :
            page.value[i] = SelectOption(last.pre.els[i],
                                         FormatTarget(last.action.value)).value

\* The kinds that need no target.
PageKinds == {"scroll_down", "scroll_up", "wait"}

C23_UnknownKindFailsUntouched ==
    (last.called /\ last.action.type \notin ActionKinds) =>
        /\ ~last.ret /\ ~last.exc /\ ~last.fault
        /\ last.clicked = {}
        /\ page = last.pre

\* C23 witness: an action without a kind was routed on a page with a control
\* while the page calls raise.
C23_Witness ==
    /\ last.called /\ last.action.type = "" /\ last.crash
    /\ ~last.ret
    /\ \E i \in ElIds : last.pre.els[i].tag # "div"

\* The kinds whose executor walks a chain of strategies.
ChainedKinds == {"fill", "click", "check", "radio"}

\* C24: a chained executor reports failure only after its recovery pass: when
\* no strategy matches, on a page that works, the page has been scrolled
\* forward once by the fixed delta of the recovery pass when false is returned.
C24_FailureOnlyAfterRecoveryPass ==
    (/\ Unresolvable /\ last.action.type \in ChainedKinds
     /\ ~last.crash /\ ~last.fault /\ ~last.ret) =>
        page = Wheel(last.pre, RetryWheel)

\* The strategy chain of the last routed action, for the label (or, for a
\* radio, the value) it names.
ChainOfLast ==
    LET a == last.action
        label == a.target_label.label
        given == Get(a.value, LabelTarget(""))
    IN  CASE a.type = "fill" -> FillLocators(label)
          [] a.type = "click" -> ClickLocators(FormatTarget(a.target_label))
          [] a.type = "check" -> CheckLocators(label)
          [] OTHER -> RadioLocators(IF Truthy(given) THEN given.label ELSE label)

\* The strategies of that chain whose first match, on the page before the
\* call, shows and takes the interaction of the kind.
HitsOfLast ==
    {k \in 1..Len(ChainOfLast) :
        LET t == First(last.pre, ChainOfLast[k])
        IN  /\ IsVisible(last.pre, t)
            /\ last.action.type = "fill" => (t > 0 /\ Fillable(last.pre.els[ElOf(t)]))}

\* The element the earliest of these strategies finds.
EarliestHit == First(last.pre, ChainOfLast[Min(HitsOfLast)])

\* The elements whose text is not what it was before the last call.
Rewritten == {i \in ElIds : page.value[i] # last.pre.value[i]}

\* The text a fill writes: the cover letter the agent holds for a cover letter
\* field, else the value of the action.
WrittenByLast ==
    IF IsCoverLetterField(last.action.target_label.label) /\ env.cover_letter_text # ""
    THEN env.cover_letter_text
    ELSE Get(last.action.value, LabelTarget("")).label

\* C25: the earliest strategy that succeeds is the only one that acts. When a
\* strategy of the chain succeeds on the first pass, the call returns true
\* having acted on the element of the earliest such strategy and on nothing
\* else: one click and the page that click leaves (no recovery scroll, no
\* script), or one field written.
C25_EarliestStrategyActsAlone ==
    (/\ last.called /\ last.action.type \in ChainedKinds /\ ~last.crash
     /\ last.action.target_label.kind = "label"
     /\ HitsOfLast # {}) =>
        /\ last.ret
        /\ IF last.action.type = "fill"
           THEN /\ Rewritten \subseteq {EarliestHit}
                /\ page.value[EarliestHit] = WrittenByLast
                /\ last.clicked = {}
           ELSE /\ last.clicked = {EarliestHit}
                /\ page = ClickOn(ScrollIntoView(last.pre, EarliestHit), EarliestHit)

\* C25 witness: a check succeeded on a checkbox that several strategies of the
\* chain find, by its element and by its label.
C25_Witness ==
    /\ last.called /\ last.action.type = "check" /\ ~last.crash
    /\ last.action.target_label.kind = "label"
    /\ Cardinality(HitsOfLast) >= 2
    /\ \E j, k \in HitsOfLast :
            First(last.pre, ChainOfLast[j]) # First(last.pre, ChainOfLast[k])
    /\ last.ret

\* The matches of the k-th strategy of the chain that show, on the page before
\* the call, and take the interaction of the kind.
ShowingMatches(k) ==
    {t \in Matches(last.pre, ChainOfLast[k]) :
        /\ IsVisible(last.pre, t)
        /\ last.action.type = "fill" => (t > 0 /\ Fillable(last.pre.els[ElOf(t)]))}

\* C26: when a strategy of the chain has a match that shows, the call acts on
\* the earliest such match in document order of the earliest such strategy,
\* also when a match that does not show precedes it.
C26_FirstVisibleMatchActedOn ==
    (/\ last.called /\ last.action.type \in ChainedKinds /\ ~last.crash
     /\ last.action.target_label.kind = "label"
     /\ \E k \in 1..Len(ChainOfLast) : ShowingMatches(k) # {}) =>
        LET k == Min({j \in 1..Len(ChainOfLast) : ShowingMatches(j) # {}})
            t == FirstOf(ShowingMatches(k))
        IN  /\ last.ret
            /\ IF last.action.type = "fill"
               THEN /\ page.value[t] = WrittenByLast
                    /\ Rewritten \subseteq {t}
               ELSE last.clicked = {t}

\* The label of the last routed action holds both words, in any case.
NamesCoverLetter ==
    /\ Contains(Lower(last.action.target_label.label), "cover")
    /\ Contains(Lower(last.action.target_label.label), "letter")

\* The last call was a fill, by a label, that returned true on a working page.
FillDone ==
    /\ last.called /\ last.action.type = "fill" /\ last.ret /\ ~last.crash
    /\ last.action.target_label.kind = "label"

\* C27 as stated: a fill whose label holds "cover" and "letter" writes the
\* cover letter text the agent holds, whatever value the action gives; a fill
\* of any other label writes the value of the action.
C27_CoverLetterTextReplacesValue ==
    FillDone =>
        LET text == IF NamesCoverLetter THEN env.cover_letter_text
                    ELSE Get(last.action.value, LabelTarget("")).label
        IN  /\ \E i \in ElIds : page.value[i] = text
            /\ \A i \in Rewritten : page.value[i] = text

\* C27, amended: a fill whose label holds "cover" and "letter" writes the
\* cover letter text when the agent holds one, whatever value the action
\* gives; without a cover letter text, and for any other label, it writes the
\* value of the action.
C27_CoverLetterTextReplacesValueIfLoaded ==
    FillDone =>
        LET text == IF NamesCoverLetter /\ env.cover_letter_text # ""
                    THEN env.cover_letter_text
                    ELSE Get(last.action.value, LabelTarget("")).label
        IN  /\ \E i \in ElIds : page.value[i] = text
            /\ \A i \in Rewritten : page.value[i] = text

\* C27 witness: a fill of "Cover LETTER" with the value "Ada" wrote the cover
\* letter text into the cover letter field.
C27_Witness ==
    /\ FillDone /\ NamesCoverLetter
    /\ last.action.value = LabelTarget("Ada")
    /\ env.cover_letter_text # ""
    /\ \E i \in Rewritten :
        /\ last.pre.els[i] = CoverTextarea
        /\ page.value[i] = env.cover_letter_text

\* C28: a select that no click-based flow completes ends with the keyboard
\* fallback before it reports failure: the field whose trigger was clicked is
\* focused and the value typed into it, so that a select that returned false
\* on a working page has left keystrokes in that field.
C28_KeyboardFallbackBeforeFailure ==
    (/\ last.called /\ last.action.type = "select" /\ ~last.crash /\ ~last.fault
     /\ ~last.ret
     /\ Truthy(Get(last.action.value, LabelTarget("")))
     /\ last.clicked # {}) =>
        \E t \in last.clicked : page.value[ElOf(t)] # last.pre.value[ElOf(t)]

\* The upload of the resume or of the cover letter that the last call was, on
\* a working page, with the file on disk.
UploadOfLast ==
    /\ last.called /\ last.action.type \in {"upload_resume", "upload_cover_letter"}
    /\ ~last.crash /\ ~FileAbsent(last.action, env)

\* The locators of that upload, the label it looks for, and the file's name.
HintsOfLast ==
    IF last.action.type = "upload_resume"
    THEN ResumeLocators(FormatTarget(Get(last.action.target_label,
                                         LabelTarget("Resume"))))
    ELSE CoverLocators(FormatTarget(Get(last.action.target_label,
                                        LabelTarget("Cover Letter"))))
FileOfLast ==
    IF last.action.type = "upload_resume" THEN ResumeFileName
    ELSE CoverLetterFileName

\* None of the first n locators of that upload matched before the call.
NoHint(n) == \A k \in 1..n : Matches(last.pre, HintsOfLast[k]) = {}

\* The file input the position alone gives the upload: the only one, or the
\* first for the resume and the second for the cover letter.
InputAt(n) ==
    LET inputs == Matches(last.pre, FileInput) IN
    CHOOSE t \in inputs :
        Cardinality({u \in inputs : DocOrder(u) < DocOrder(t)}) = n - 1
PositionalTarget ==
    IF Count(last.pre, FileInput) >= 2 /\ last.action.type = "upload_cover_letter"
    THEN InputAt(2) ELSE InputAt(1)

\* The call attached its file to the positional target and to nothing else.
AttachedByPosition ==
    /\ last.ret
    /\ page.files[PositionalTarget] = FileOfLast
    /\ \A i \in ElIds \ {PositionalTarget} : page.files[i] = last.pre.files[i]

\* C29 as stated: when no file input carries the kind's word in its name or
\* id, the upload goes to the only file input, or with two or more to the
\* first for the resume and to the second for the cover letter.
C29_PositionalUploadTarget ==
    (UploadOfLast /\ Matches(last.pre, FileInput) # {} /\ NoHint(2)) =>
        AttachedByPosition

\* C29: when none of the specific locators of the upload matches (name, id,
\* the label-based ones and, for the resume, a file input accepting pdf), the
\* upload goes to the only file input, or with two or more to the first for
\* the resume and to the second for the cover letter.
C29_PositionalUploadTargetWithoutAnyHint ==
    (UploadOfLast /\ Matches(last.pre, FileInput) # {}
     /\ NoHint(Len(HintsOfLast) - (IF last.action.type = "upload_resume" THEN 1 ELSE 0))) =>
        AttachedByPosition

\* C29 witness: a cover letter went to the second of two file inputs that
\* nothing tells apart.
C29_Witness ==
    /\ UploadOfLast /\ last.action.type = "upload_cover_letter"
    /\ Count(last.pre, FileInput) >= 2
    /\ NoHint(Len(HintsOfLast))
    /\ page.files[InputAt(2)] = CoverLetterFileName
    /\ last.pre.files[InputAt(2)] # CoverLetterFileName

-----------------------------------------------------------------------------
(* Claims about the run loop, checked under SpecRun *)

\* The decision at hand is the one the last ACT executed.
Executed == last.called /\ pc \notin {"unmark", "act"} /\ outcome.why # "interrupt"

\* C4: with Set-of-Mark on, when the decision carries an element_id taken from
\* the markers injected in the same iteration, the fill or click goes through
\* the marker and the id resolves, when the action is executed, to the element
\* that was marked with it.
C4_IdResolvesAtExecution ==
    (Executed /\ env.enable_som /\ decision.marked # 0 /\ ~last.crash
        /\ decision.action.type \in {"fill", "click"}) =>
        (last.via = "marker" /\ last.el = decision.marked)

\* Four failed fills on one target, recorded at steps 1 to 4, are the history.
FourFailedFills ==
    /\ Len(action_history) = 4
    /\ \A k \in 1..4 :
        /\ action_history[k].step = k
        /\ action_history[k].type = "fill"
        /\ action_history[k].target = action_history[1].target
        /\ ~action_history[k].success

\* C10: five consecutive failed fills on one target, from an empty history on,
\* end with a recovery scroll-up and a history cut to 3 entries.
C10_FiveFailuresScrollUpAndTruncate ==
    [][(/\ FourFailedFills
        /\ pc = "act" /\ pc' = "look"
        /\ decision.action.type = "fill"
        /\ HistoryTarget(decision.action) = action_history[1].target
        /\ ~last'.ret)
       => (/\ verdict'.is_looping
           /\ verdict'.direction = "scroll_up"
           /\ Len(action_history') = KeptAfterLoop)]_vars

\* The history with the entry the ACT step at hand records.
Recorded ==
    Append(action_history,
           [step |-> step, type |-> decision.action.type,
            target |-> HistoryTarget(decision.action), success |-> last'.ret])

\* C12: every time loop detection fires, the history the next iteration starts
\* from is the last 3 entries of the history the detection ran on.
C12_DetectionTruncatesToThree ==
    [][(pc = "act" /\ pc' = "look" /\ verdict'.is_looping)
       => action_history' = LastN(Recorded, KeptAfterLoop)]_vars

C14_LoopTerminatesWithinBudget ==
    /\ [](step <= env.max_steps)
    /\ [][/\ step' # step => (pc = "look" /\ step' = step + 1)
          /\ pc' = "think" => (pc = "look" /\ step' = step + 1)
          /\ pc' = "unmark" => (pc = "think" /\ step' = step)
          /\ pc' = "act" => (pc = "unmark" /\ step' = step)
          /\ last' # last => pc = "act"
          /\ pc = "act" => (step' = step /\ env' = env)]_vars
    /\ [](outcome.why = "budget" => (~outcome.ret /\ step = env.max_steps))
    /\ <>(pc = "done")

\* C14 witness: the budget ran out in a run whose last action set off a
\* recovery scroll.
C14_Witness ==
    /\ outcome.returned /\ outcome.why = "budget"
    /\ step = env.max_steps
    /\ verdict.is_looping

\* What run returns at each of its endings: true on a completed decision whose
\* confirmation was captured, false on an error decision, on a spent budget and
\* from the handler of an exception.
RunReturns(why) == why = "completed"

\* main: the exit status of the process for what run returned.
ExitStatus(success) == IF success THEN 0 ELSE 1

\* What the caller of run has of an ending, and what the parent of the process
\* has of it.
Seen(why) == [ret |-> RunReturns(why), exit |-> ExitStatus(RunReturns(why))]

\* C15: a run that ends on a spent budget leaves its caller, and the parent of
\* the process, with an outcome that is neither the one of an oracle error nor
\* the one of a fatal failure.
C15_ExhaustionToldApart ==
    (outcome.returned /\ outcome.why = "budget") =>
        /\ outcome.ret = RunReturns("budget")
        /\ Seen("budget") # Seen("error")
        /\ Seen("budget") # Seen("fatal")

\* The answers that do not parse as structured data: no content, or prose
\* without a JSON object.
Unparsed == {"absent", "prose"}

\* C16: an answer of the oracle that is absent or does not parse becomes a
\* decision with status error, and that decision ends the run with false in the
\* same iteration, no action executed.
C16_UnparsedAnswerIsErrorDecision ==
    /\ [][(pc = "think" /\ decision'.payload \in Unparsed)
          => (pc' = "unmark" /\ decision'.status = "error")]_vars
    /\ [][(pc = "unmark" /\ decision.payload \in Unparsed /\ outcome'.why # "interrupt")
          => (/\ outcome'.returned /\ ~outcome'.ret /\ outcome'.why = "error"
              /\ last' = last /\ step' = step
              /\ action_history' = action_history)]_vars

\* The ACT step at hand recorded its action, once, as the last entry of the
\* history.
RecordedOnce ==
    /\ action_history' \in {Recorded, LastN(Recorded, KeptAfterLoop)}
    /\ action_history'[Len(action_history')] =
            [step |-> step, type |-> decision.action.type,
             target |-> HistoryTarget(decision.action), success |-> last'.ret]

InterruptStatus == 130

\* C18: an interrupt takes effect only between iterations, before the loop or
\* at the loop test, never inside an iteration, whose action always runs to
\* completion; and it ends the run without success, with an exit status that
\* no other ending has.
C18_InterruptOnlyBetweenIterations ==
    /\ [][(outcome'.why = "interrupt" /\ outcome.why # "interrupt")
          => (pc \in {"start", "look"} /\ page' = page)]_vars
    /\ [][pc = "act" => (outcome'.why # "interrupt" /\ last'.called)]_vars
    /\ [](outcome.why = "interrupt" =>
            (~outcome.ret /\ InterruptStatus \notin {ExitStatus(TRUE), ExitStatus(FALSE)}))

\* The ACT step at hand left the page as one call of the executor on the
\* decision's action leaves it, the recovery scroll apart.
ExecutedOnce ==
    \E crash \in BOOLEAN :
        LET Left(r) ==
                /\ last'.ret = r.ret /\ last'.via = r.via
                /\ page' \in {r.page, Wheel(r.page, WheelStep), Wheel(r.page, -WheelStep)}
        IN  Left(ExecuteAction(page, decision.action, env, crash))

\* C30: the loop is sequential and does not retry. The positions follow one
\* another as look, think, unmark, act; the decision changes at THINK only,
\* once for each LOOK, before the action; the executor is called at ACT only,
\* once, on the action of the decision at hand and on the page as it stands;
\* ACT appends one entry, for that call, and the loop detection judges the
\* history with that entry in it; the history changes nowhere else in the
\* loop; and after an action that failed the next thing is a LOOK or the end,
\* never the action again.
C30_SequentialWithoutRetry ==
    [][/\ pc' # pc =>
            \/ pc = "start" /\ pc' \in {"look", "done"}
            \/ pc = "look" /\ pc' \in {"think", "done"}
            \/ pc = "think" /\ pc' \in {"unmark", "done"}
            \/ pc = "unmark" /\ pc' \in {"act", "done"}
            \/ pc = "act" /\ pc' \in {"look", "done"}
       /\ decision' # decision => (pc = "think" /\ last' = last /\ page' = page)
       /\ pc = "think" => pc' # pc
       /\ last' # last => pc = "act"
       /\ action_history' # action_history => pc \in {"start", "act"}
       /\ (pc = "act" /\ outcome'.why # "interrupt") =>
            /\ pc' \in {"look", "done"}
            /\ decision' = decision
            /\ last'.called /\ last'.action = decision.action /\ last'.pre = page
            /\ ExecutedOnce
            /\ action_history' \in {Recorded, LastN(Recorded, KeptAfterLoop)}
            /\ verdict' = [called |-> TRUE,
                           is_looping |-> DetectLoop(Recorded).is_looping,
                           direction |-> DetectLoop(Recorded).direction]]_vars

\* C30 witness: an action failed, a fresh decision named the same target, and
\* the action was executed again in the next iteration, each with its entry.
C30_Witness ==
    /\ pc = "look" /\ step >= 2 /\ Len(action_history) >= 2
    /\ last.called /\ ~last.ret
    /\ action_history[Len(action_history)].step = step
    /\ action_history[Len(action_history) - 1].step = step - 1
    /\ ~action_history[Len(action_history) - 1].success
    /\ action_history[Len(action_history) - 1].target =
            action_history[Len(action_history)].target

\* C31: a decision of status completed or error ends the loop in its own
\* iteration: the step that follows the decision ends the run, and in it no
\* action is executed, no history entry appended, no loop detection or
\* recovery scroll run and no oracle call made; nothing follows the end.
C31_TerminalStatusEndsIteration ==
    [][/\ (pc = "unmark" /\ decision.status \in {"completed", "error"}) =>
            /\ pc' = "done"
            /\ last' = last
            /\ action_history' = action_history
            /\ verdict' = verdict
            /\ page'.scrollY = page.scrollY
            /\ decision' = decision /\ step' = step
       /\ pc # "done"]_vars

\* C31 witness: an error decision ended the run in a later iteration, whose
\* history ends with the entry of the iteration before.
C31_Witness ==
    /\ pc = "done" /\ outcome.returned /\ outcome.why = "error"
    /\ decision.status = "error"
    /\ step >= 2 /\ last.called
    /\ action_history # <<>>
    /\ action_history[Len(action_history)].step = step - 1

\* C32: in the iteration that follows one whose loop detection fired and whose
\* recovery ran, the loop detection does not fire.
C32_NoDetectionRightAfterRecovery ==
    [][(pc = "act" /\ verdict.called /\ verdict.is_looping
        /\ outcome'.why # "interrupt")
       => ~verdict'.is_looping]_vars

\* No overlay is drawn and no element carries an id attribute.
PageUnmarked == page.overlays = {} /\ \A i \in ElIds : page.vaId[i] = 0

\* An action is about to be executed, or the loop has ended through a
\* completed or error decision or a spent budget.
AtActionOrEnd ==
    \/ pc = "act"
    \/ pc = "done" /\ outcome.returned /\ outcome.why \in {"completed", "error", "budget"}

\* With Set-of-Mark on, LOOK calls the injection before THINK, the step after
\* the decision calls the removal before the status is looked at, and nothing
\* else in the loop draws an overlay.
MarkedForTheOracleOnly ==
    [][env.enable_som =>
        /\ (pc = "look" /\ pc' = "think") => probe'.op = "inject"
        /\ (pc = "unmark" /\ outcome'.why # "interrupt") => probe'.op = "remove"
        /\ (page'.overlays # page.overlays /\ page'.overlays # {}) => pc = "look"
        /\ pc = "act" => (page'.overlays = page.overlays /\ page'.vaId = page.vaId)]_vars

C37_BrowserClosedOnceAtTheEnd ==
    /\ [](outcome.closes = IF pc = "done" THEN 1 ELSE 0)
    /\ [](outcome.returned =>
            (outcome.why \in {"completed", "error", "budget", "fatal"}
             /\ outcome.closes = 1))
    /\ [][/\ outcome'.closes # outcome.closes =>
                (pc # "done" /\ pc' = "done" /\ outcome'.closes = outcome.closes + 1)
          /\ outcome.closes > 0 =>
                (decision' = decision /\ last' = last /\ page' = page)
          /\ pc # "done"]_vars

\* C37 witness: a fault inside the loop, after an action had been executed,
\* ended the run with the browser closed.
C37_Witness ==
    /\ pc = "done" /\ outcome.returned /\ outcome.why = "fatal"
    /\ step >= 2 /\ last.called
    /\ outcome.closes = 1

-----------------------------------------------------------------------------
(* Claims about the start-up, checked under SpecStartup *)

\* The start-up is over and the loop is about to begin.
StartedUp == pc = "look" /\ step = 0

\* C35: when the prefill ends, every label group that was filled has a field
\* of its own (no field took the value of two groups), and the field under the
\* label "First Name" holds the user's first name.
C35_PrefillFillsEachFieldOnce ==
    StartedUp =>
        /\ Cardinality({i \in ElIds : page.value[i] # ""}) >= Len(action_history)
        /\ \A i \in ElIds :
              (page.els[i] = FirstNameField /\ env.user.first_name # "") =>
                  page.value[i] = env.user.first_name

\* C36: after the quick uploads with both files on disk, on a page with a file
\* input, the resume is still attached to the input it went to: some file
\* input holds the resume, also when the page has one file input only.
C36_ResumeKeptAfterCoverLetter ==
    (/\ StartedUp /\ env.resume = "present" /\ env.cover = "present"
     /\ Matches(page, FileInput) # {}) =>
        \E i \in ElIds : page.files[i] = ResumeFileName

=============================================================================
